---- MODULE Spec2Model ----
(***************************************************************************)
(* Model of the blog system's hand-rolled HTTP core: the connection        *)
(* server (server.py), the router (router.py), the session store           *)
(* (session.py) and the database wrapper (database.py).                    *)
(*                                                                         *)
(* Text is modelled as a sequence of tokens.  A token is either one of the *)
(* characters the code inspects ("/", "<", ">", ":", " ", ".", "..", a     *)
(* digit, "\r\n") or a run of characters the code never looks inside       *)
(* ("posts", "Content-Length").  Two runs are equal exactly when the       *)
(* Python strings are equal, so "posts" and "Posts" are different tokens.  *)
(***************************************************************************)
EXTENDS Integers, Sequences, FiniteSets, TLC

VARIABLES
    \* ---- router.py: Router ----
    routes,          \* Router.routes, the ordered route table
    lastResolve,     \* the last resolve call: its arguments and its result
    \* ---- server.py: HTTPServer.serve_static ----
    staticCall,      \* the last /static/ request: path, response, file read
    \* ---- server.py: one accepted connection ----
    pc,              \* position of the connection thread in _handle_client
    wire,            \* the bytes the peer intends to send
    delivered,       \* how many tokens of wire recv has returned so far
    peerClosed,      \* the peer has shut down its sending side
    request_data,    \* the buffer accumulated by the READ loop
    readStop,        \* why the READ loop ended
    response,        \* the response _dispatch returned
    sockOut,         \* responses written to the client socket
    sockClosed,      \* the client socket has been closed
    recvCalls,       \* recv calls made on this socket after the first write
    connCount,       \* connections accepted so far
    dispatchLog,     \* the _dispatch calls made so far, and the last one
    \* ---- server.py: _record_metric under concurrent threads ----
    _request_counter,\* HTTPServer._request_counter
    metrics,         \* rows of performance_metrics, in insertion order
    mpc,             \* position of each thread inside _record_metric
    mLocal,          \* each thread's value read from self._request_counter
    mArg,            \* each thread's request_count argument
    mCalls,          \* number of _record_metric calls started
    \* ---- database.py: Database ----
    lock,            \* Database.lock: the holder, or NoThread
    dpc,             \* position of each thread inside a Database method
    dOp,             \* the Database method each thread is executing
    dRaised,         \* the thread's statement raised
    \* ---- session.py: SessionManager ----
    _sessions,       \* SessionManager._sessions: token -> username
    sLock,           \* SessionManager._lock: the holder, or NoThread
    spc,             \* position of each thread inside a SessionManager method
    sOp,             \* the call each thread is executing, with arguments
    sRet,            \* the value the call is about to return
    issued,          \* tokens returned by uuid4 so far, with their user
    destroyed,       \* tokens for which destroy_session has completed
    \* ---- handlers.py, api_handlers.py: response construction ----
    built,           \* the last response a handler constructed
    \* ---- handlers.py: TemplateRenderer ----
    rendering,       \* the last TemplateRenderer.render call: arguments and result
    \* ---- handlers.py: _RichTextSanitizer ----
    sanPass,         \* how many times the text has been sanitized
    sanInput,        \* the text given to _sanitize_rich_text
    sanFirst,        \* the output of the first pass
    sanOutput,       \* the output of the last pass
    \* ---- http_types.py: HTTPRequest and its derived views ----
    req,             \* the HTTPRequest object under access
    access,          \* the last call of a derived view: its result or exception
    firstAccess,     \* per view, the result of its first call on this request
    computed,        \* per view, how often its computation ran on this request
    mutations,       \* assignments to the request's attributes after a view was read
    \* ---- handlers.py, auth.py, models/user.py: register, login, profile, logout ----
    users,           \* the rows of the users table
    registering,     \* per thread, the registration between its lookup and its INSERT
    registered,      \* the submitted (username, password) of every registration that succeeded
    flow,            \* the request and the response of the last handler that returned
    \* ---- models/interaction.py: toggle_like and toggle_favorite ----
    tables,          \* the rows of the likes and of the favorites table
    toggles,         \* per thread, its toggle call: position, arguments, row found, result
    toggleCalls,     \* toggle calls started so far
    \* ---- handlers.py: delete_post against add_comment, handle_like, handle_favorite ----
    posts,           \* the ids of the rows of the posts table
    dependents,      \* the rows of the comments, likes and favorites tables
    handling,        \* per thread, its handler: position, arguments, row found
    handled,         \* handler calls started so far
    deletedPosts,    \* the posts for which delete_post has returned its redirect
    \* ---- handlers.py, api_handlers.py, models/post.py: who is shown which post ----
    library,         \* the rows of the posts table, with their author's username
    grants,          \* the posts for which unlock_post has set the access cookie
    bookmarks,       \* the rows of the favorites table, as (username, post id)
    follows,         \* the author subscriptions, as (username, author)
    shown,           \* the last answer of a handler that shows posts
    \* ---- models/subscription.py, api_handlers.py, handlers.py: subscriptions ----
    subscription_rows,\* the rows of the subscriptions table
    subscriptionsMade,\* rows inserted so far
    cancelled,       \* the last request that removes subscriptions: its user and the rows it deleted
    \* ---- models/message.py and MessageAPI ----
    mailbox,         \* rows of the messages table
    messagesSent,    \* messages inserted so far
    inflight,        \* per thread, the MessageAPI call it is inside
    moved            \* the last statement that changed or removed a message

routerVars  == <<routes, lastResolve>>
staticVars  == <<staticCall>>
serverVars  == <<pc, wire, delivered, peerClosed, request_data, readStop,
                 response, sockOut, sockClosed, recvCalls, connCount,
                 dispatchLog>>
metricVars  == <<_request_counter, metrics, mpc, mLocal, mArg, mCalls>>
dbVars      == <<lock, dpc, dOp, dRaised>>
sessionVars == <<_sessions, sLock, spc, sOp, sRet, issued, destroyed>>
coreVars == <<routerVars, staticVars, serverVars, metricVars, dbVars, sessionVars>>
respVars    == <<built>>
renderVars == <<rendering>>
sanVars == <<sanPass, sanInput, sanFirst, sanOutput>>
reqVars == <<req, access, firstAccess, computed, mutations>>
authVars == <<users, registering, registered, flow>>
interactionVars == <<tables, toggles, toggleCalls>>
removalVars == <<posts, dependents, handling, handled, deletedPosts>>
visibilityVars == <<library, grants, bookmarks, follows, shown>>
subscriptionVars == <<subscription_rows, subscriptionsMade, cancelled>>
messageVars == <<mailbox, messagesSent, inflight, moved>>
extVars == <<respVars, renderVars, sanVars, reqVars, authVars, interactionVars, removalVars, visibilityVars, subscriptionVars, messageVars>>
vars == <<coreVars, extVars>>

\* what the actions of one component leave alone
besidesResp == <<coreVars, renderVars, sanVars, reqVars, authVars, interactionVars, removalVars, visibilityVars, subscriptionVars, messageVars>>
besidesRender == <<coreVars, respVars, sanVars, reqVars, authVars, interactionVars, removalVars, visibilityVars, subscriptionVars, messageVars>>
besidesSan == <<coreVars, respVars, renderVars, reqVars, authVars, interactionVars, removalVars, visibilityVars, subscriptionVars, messageVars>>
besidesReq == <<coreVars, respVars, renderVars, sanVars, authVars, interactionVars, removalVars, visibilityVars, subscriptionVars, messageVars>>
besidesAuth == <<coreVars, respVars, renderVars, sanVars, reqVars, interactionVars, removalVars, visibilityVars, subscriptionVars, messageVars>>
besidesInteraction == <<coreVars, respVars, renderVars, sanVars, reqVars, authVars, removalVars, visibilityVars, subscriptionVars, messageVars>>
besidesRemoval == <<coreVars, respVars, renderVars, sanVars, reqVars, authVars, interactionVars, visibilityVars, subscriptionVars, messageVars>>
besidesVisibility == <<coreVars, respVars, renderVars, sanVars, reqVars, authVars, interactionVars, removalVars, subscriptionVars, messageVars>>
besidesSubscription == <<coreVars, respVars, renderVars, sanVars, reqVars, authVars, interactionVars, removalVars, visibilityVars, messageVars>>
besidesMessage == <<coreVars, respVars, renderVars, sanVars, reqVars, authVars, interactionVars, removalVars, visibilityVars, subscriptionVars>>

-----------------------------------------------------------------------------
(* Bounds of the model.                                                    *)
MaxRoutes  == 2     \* routes registered by add_route in the router model
MaxPathLen == 5     \* tokens of a request path given to resolve
MaxConns   == 1     \* connections accepted by the server model
MaxBody    == 2     \* body bytes a peer sends
MaxChunk   == 3     \* tokens one recv returns
MaxCalls   == 3     \* _record_metric calls started by the threads
MaxTokens  == 2     \* session tokens uuid4 can return
MaxStatic  == 4     \* tokens of the path given to serve_static
MaxText    == 2     \* characters of a message, a page or a JSON string
MaxKeys    == 2     \* entries of a rendering context
MaxSnippets == 2    \* pieces of markup and text in a sanitizer input
MaxTarget  == 2     \* tokens of a request target
MaxAccesses == 2    \* calls of derived views on one request
MaxMutations == 1   \* assignments to the attributes of one request
MaxToggles == 4     \* toggle_like and toggle_favorite calls started
MaxHandled == 3     \* delete_post, add_comment and like or favorite requests started
MaxComments == 1    \* comments of a post
MaxSubscriptions == 3 \* rows inserted into the subscriptions table
MaxMessages == 1    \* rows inserted into the messages table

Threads == {"t1", "t2"}
NoThread == "none"

-----------------------------------------------------------------------------
(* Python str / bytes helpers over token sequences.                        *)

Min(a, b) == IF a < b THEN a ELSE b

RECURSIVE SplitRec(_, _, _, _)
SplitRec(s, sep, cur, acc) ==
    IF s = <<>> THEN Append(acc, cur)
    ELSE IF Head(s) = sep THEN SplitRec(Tail(s), sep, <<>>, Append(acc, cur))
    ELSE SplitRec(Tail(s), sep, Append(cur, Head(s)), acc)

\* str.split(sep) for a one-token separator
Split(s, sep) == SplitRec(s, sep, <<>>, <<>>)

RECURSIVE LStrip(_, _)
LStrip(s, chars) ==
    IF s # <<>> /\ Head(s) \in chars THEN LStrip(Tail(s), chars) ELSE s

RECURSIVE RStrip(_, _)
RStrip(s, chars) ==
    IF s # <<>> /\ s[Len(s)] \in chars
    THEN RStrip(SubSeq(s, 1, Len(s) - 1), chars) ELSE s

\* str.strip(chars)
Strip(s, chars) == RStrip(LStrip(s, chars), chars)

\* str.startswith(prefix)
StartsWith(s, prefix) ==
    /\ Len(s) >= Len(prefix)
    /\ SubSeq(s, 1, Len(prefix)) = prefix

\* [x for x in seq if x]
RECURSIVE NonEmpty(_)
NonEmpty(seq) ==
    IF seq = <<>> THEN <<>>
    ELSE IF Head(seq) = <<>> THEN NonEmpty(Tail(seq))
    ELSE <<Head(seq)>> \o NonEmpty(Tail(seq))

\* sep.join(parts)
RECURSIVE Join(_, _)
Join(parts, sep) ==
    IF parts = <<>> THEN <<>>
    ELSE IF Len(parts) = 1 THEN Head(parts)
    ELSE Head(parts) \o <<sep>> \o Join(Tail(parts), sep)

\* str.upper() of one token, for the tokens whose case the code folds
UpperToken(t) ==
    CASE t \in {"get", "Get", "GET"} -> "GET"
      [] t \in {"post", "Post", "POST"} -> "POST"
      [] t \in {"delete", "DELETE"} -> "DELETE"
      [] OTHER -> t

\* str.upper()
Upper(s) == [i \in DOMAIN s |-> UpperToken(s[i])]

\* str.lower() of one token, for the tokens whose case the code folds
LowerToken(t) ==
    CASE t \in {"Content-Length", "content-length", "CONTENT-LENGTH"} -> "content-length"
      [] t \in {"Content-Type", "content-type"} -> "content-type"
      [] t \in {"Cookie", "cookie"} -> "cookie"
      [] t \in {"Content-Disposition", "content-disposition"} -> "content-disposition"
      [] t \in {"Application/JSON", "application/json"} -> "application/json"
      [] OTHER -> t

\* str.lower()
Lower(s) == [i \in DOMAIN s |-> LowerToken(s[i])]

\* all token sequences over alphabet of length at most n
SeqsUpTo(alphabet, n) == UNION {[1..k -> alphabet] : k \in 0..n}

-----------------------------------------------------------------------------
(* router.py                                                               *)

NoMatch == [found |-> FALSE, handler |-> "", params |-> <<>>]

NoResolve == [called |-> FALSE, path |-> <<>>, method |-> <<>>, result |-> NoMatch]

\* _split_path with neither strip("/") nor the filter of empty segments
_split_path_raw(path) ==
    IF path = <<"/">> THEN <<>>
    ELSE LET parts == Split(path, "/")
         IN IF Head(parts) = <<>> THEN Tail(parts) ELSE parts

\* Router._split_path
_split_path(path) ==
    IF path = <<"/">> THEN <<>>
    ELSE NonEmpty(Split(Strip(path, {"/"}), "/"))

IsPlaceholder(route_segment) ==
    /\ route_segment # <<>>
    /\ Head(route_segment) = "<"
    /\ route_segment[Len(route_segment)] = ">"

\* params[key] = request_segment
Bind(params, key, value) ==
    [k \in (DOMAIN params) \cup {key} |-> IF k = key THEN value ELSE params[k]]

\* Router._match_segments: the zip loop from position i, threading params
RECURSIVE MatchFrom(_, _, _, _)
MatchFrom(route_segments, request_segments, i, params) ==
    IF i > Len(route_segments) THEN [ok |-> TRUE, params |-> params]
    ELSE IF IsPlaceholder(route_segments[i])
    THEN MatchFrom(route_segments, request_segments, i + 1,
                   Bind(params,
                        SubSeq(route_segments[i], 2, Len(route_segments[i]) - 1),
                        request_segments[i]))
    ELSE IF route_segments[i] = request_segments[i]
    THEN MatchFrom(route_segments, request_segments, i + 1, params)
    ELSE [ok |-> FALSE, params |-> params]

_match_segments(route_segments, request_segments) ==
    IF Len(route_segments) # Len(request_segments)
    THEN [ok |-> FALSE, params |-> <<>>]
    ELSE MatchFrom(route_segments, request_segments, 1, <<>>)

\* the entry Router.add_route appends
RouteEntry(path, method, handler) ==
    [path |-> path, method |-> Upper(method), handler |-> handler,
     segments |-> _split_path(path)]

\* Router.resolve: the loop over self.routes from index i
RECURSIVE ResolveFrom(_, _, _, _)
ResolveFrom(table, request_segments, method, i) ==
    IF i > Len(table) THEN NoMatch
    ELSE IF table[i].method # Upper(method)
    THEN ResolveFrom(table, request_segments, method, i + 1)
    ELSE LET m == _match_segments(table[i].segments, request_segments)
         IN IF m.ok
            THEN [found |-> TRUE, handler |-> table[i].handler, params |-> m.params]
            ELSE ResolveFrom(table, request_segments, method, i + 1)

\* resolve that keeps scanning and returns the last matching entry
RECURSIVE ResolveBack(_, _, _, _)
ResolveBack(table, request_segments, method, i) ==
    IF i < 1 THEN NoMatch
    ELSE IF table[i].method # Upper(method)
    THEN ResolveBack(table, request_segments, method, i - 1)
    ELSE LET m == _match_segments(table[i].segments, request_segments)
         IN IF m.ok
            THEN [found |-> TRUE, handler |-> table[i].handler, params |-> m.params]
            ELSE ResolveBack(table, request_segments, method, i - 1)

ResolveLast(table, path, method) ==
    ResolveBack(table, _split_path(path), method, Len(table))

Resolve(table, path, method) == ResolveFrom(table, _split_path(path), method, 1)

R(path, method, handler) == <<path, method, handler>>

\* HTTPServer._configure_routes: the add_route calls, in order
RouteRegistrations == <<
    R(<<"/">>, "GET", "basic_handlers.homepage"),
    R(<<"/", "profile">>, "GET", "basic_handlers.profile"),
    R(<<"/", "profile">>, "POST", "basic_handlers.update_profile"),
    R(<<"/", "profile", "/", "privacy">>, "POST", "basic_handlers.update_privacy_settings"),
    R(<<"/", "register">>, "GET", "user_handlers.show_register"),
    R(<<"/", "register">>, "POST", "user_handlers.register"),
    R(<<"/", "login">>, "GET", "user_handlers.show_login"),
    R(<<"/", "login">>, "POST", "user_handlers.login"),
    R(<<"/", "logout">>, "GET", "user_handlers.logout"),
    R(<<"/", "posts", "/", "new">>, "GET", "article_handlers.show_create_post"),
    R(<<"/", "posts", "/", "new">>, "POST", "article_handlers.create_post"),
    R(<<"/", "posts", "/", "<", "post_id", ">">>, "GET", "article_handlers.view_post"),
    R(<<"/", "posts", "/", "<", "post_id", ">", "/", "comment">>, "POST", "article_handlers.add_comment"),
    R(<<"/", "posts", "/", "<", "post_id", ">", "/", "favorite">>, "POST", "article_handlers.handle_favorite"),
    R(<<"/", "posts", "/", "<", "post_id", ">", "/", "like">>, "POST", "article_handlers.handle_like"),
    R(<<"/", "posts", "/", "<", "post_id", ">", "/", "unlock">>, "POST", "article_handlers.unlock_post"),
    R(<<"/", "posts", "/", "<", "post_id", ">", "/", "delete">>, "POST", "article_handlers.delete_post"),
    R(<<"/", "subscriptions">>, "GET", "subscription_handlers.show_subscriptions"),
    R(<<"/", "subscriptions", "/", "category">>, "POST", "subscription_handlers.subscribe_category"),
    R(<<"/", "subscriptions", "/", "author">>, "POST", "subscription_handlers.subscribe_author"),
    R(<<"/", "subscriptions", "/", "cancel">>, "POST", "subscription_handlers.cancel_subscription"),
    R(<<"/", "messages">>, "GET", "message_handlers.mailbox"),
    R(<<"/", "api", "/", "posts">>, "GET", "post_api.list_posts"),
    R(<<"/", "api", "/", "posts">>, "POST", "post_api.create_post"),
    R(<<"/", "api", "/", "posts", "/", "<", "post_id", ">">>, "GET", "post_api.get_post"),
    R(<<"/", "api", "/", "posts", "/", "<", "post_id", ">", "/", "permissions">>, "POST", "post_api.update_permissions"),
    R(<<"/", "api", "/", "posts", "/", "<", "post_id", ">", "/", "like">>, "POST", "post_api.toggle_like"),
    R(<<"/", "api", "/", "posts", "/", "<", "post_id", ">", "/", "favorite">>, "POST", "post_api.toggle_favorite"),
    R(<<"/", "api", "/", "posts", "/", "<", "post_id", ">", "/", "comments">>, "GET", "comment_api.list_comments"),
    R(<<"/", "api", "/", "posts", "/", "<", "post_id", ">", "/", "comments">>, "POST", "comment_api.create_comment"),
    R(<<"/", "api", "/", "subscriptions">>, "GET", "subscription_api.list_subscriptions"),
    R(<<"/", "api", "/", "subscriptions">>, "POST", "subscription_api.create_subscription"),
    R(<<"/", "api", "/", "subscriptions", "/", "<", "subscription_id", ">">>, "DELETE", "subscription_api.remove_subscription"),
    R(<<"/", "api", "/", "messages">>, "GET", "message_api.list_messages"),
    R(<<"/", "api", "/", "messages">>, "POST", "message_api.send_message"),
    R(<<"/", "api", "/", "messages", "/", "inbox">>, "GET", "message_api.get_inbox"),
    R(<<"/", "api", "/", "messages", "/", "sent">>, "GET", "message_api.get_sent"),
    R(<<"/", "api", "/", "messages", "/", "trash">>, "GET", "message_api.get_trash"),
    R(<<"/", "api", "/", "messages", "/", "<", "message_id", ">">>, "GET", "message_api.get_message"),
    R(<<"/", "api", "/", "messages", "/", "<", "message_id", ">", "/", "delete">>, "POST", "message_api.delete_message"),
    R(<<"/", "api", "/", "messages", "/", "<", "message_id", ">", "/", "restore">>, "POST", "message_api.restore_message"),
    R(<<"/", "api", "/", "messages", "/", "<", "message_id", ">", "/", "permanent-delete">>, "POST", "message_api.permanently_delete_message"),
    R(<<"/", "api", "/", "messages", "/", "<", "target_username", ">">>, "GET", "message_api.get_conversation"),
    R(<<"/", "api", "/", "performance", "/", "metrics">>, "GET", "performance_api.list_metrics"),
    R(<<"/", "api", "/", "performance", "/", "metrics">>, "POST", "performance_api.record_metric"),
    R(<<"/", "api", "/", "posts", "/", "<", "post_id", ">", "/", "unlock">>, "POST", "post_api.unlock"),
    R(<<"/", "api", "/", "pokemon", "/", "status">>, "GET", "pokemon_api.get_status"),
    R(<<"/", "api", "/", "pokemon", "/", "interact">>, "POST", "pokemon_api.interact"),
    R(<<"/", "api", "/", "performance", "/", "metrics">>, "GET", "performance_api.list_metrics")
>>

ConfiguredRoutes ==
    [i \in 1..Len(RouteRegistrations) |->
        RouteEntry(RouteRegistrations[i][1], <<RouteRegistrations[i][2]>>,
                   RouteRegistrations[i][3])]


-----------------------------------------------------------------------------
(* server.py: static files.  The file system is a set of canonical         *)
(* locations, each a sequence of directory and file names.                 *)

\* HTTPServer.static_root
static_root == <<"/", "srv", "/", "blog_system", "/", "static">>

Files == { <<"srv", "blog_system", "static", "style.css">>,
           <<"srv", "blog_system", "server.py">>,
           <<"srv", "secret.key">> }

Directories == { <<>>, <<"srv">>, <<"srv", "blog_system">>,
                 <<"srv", "blog_system", "static">> }

\* the bytes of a file, by its name
FileData(location) ==
    IF location[Len(location)] = "style.css" THEN <<"c", "s", "s">>
    ELSE <<"s", "e", "c", "r", "e", "t">>

\* posixpath.normpath: the loop over path.split('/')
RECURSIVE NormComps(_, _, _)
NormComps(comps, initial_slashes, new_comps) ==
    IF comps = <<>> THEN new_comps
    ELSE LET comp == Head(comps) IN
         IF comp = <<>> \/ comp = <<".">>
         THEN NormComps(Tail(comps), initial_slashes, new_comps)
         ELSE IF \/ comp # <<"..">>
                 \/ (initial_slashes = 0 /\ new_comps = <<>>)
                 \/ (new_comps # <<>> /\ new_comps[Len(new_comps)] = <<"..">>)
         THEN NormComps(Tail(comps), initial_slashes, Append(new_comps, comp))
         ELSE IF new_comps # <<>>
         THEN NormComps(Tail(comps), initial_slashes,
                        SubSeq(new_comps, 1, Len(new_comps) - 1))
         ELSE NormComps(Tail(comps), initial_slashes, new_comps)

\* os.path.normpath on POSIX
normpath(path) ==
    IF path = <<>> THEN <<".">>
    ELSE LET initial_slashes ==
                 IF ~StartsWith(path, <<"/">>) THEN 0
                 ELSE IF StartsWith(path, <<"/", "/">>)
                         /\ ~StartsWith(path, <<"/", "/", "/">>) THEN 2
                 ELSE 1
             joined == Join(NormComps(Split(path, "/"), initial_slashes, <<>>), "/")
             result == [i \in 1..initial_slashes |-> "/"] \o joined
         IN IF result = <<>> THEN <<".">> ELSE result

\* os.path.join(a, b) on POSIX
join(a, b) ==
    IF StartsWith(b, <<"/">>) THEN b
    ELSE IF a = <<>> \/ a[Len(a)] = "/" THEN a \o b
    ELSE a \o <<"/">> \o b

\* the location the operating system reaches for an absolute path: "." and
\* empty components are skipped, ".." moves to the parent directory
RECURSIVE Walk(_, _)
Walk(comps, at) ==
    IF comps = <<>> THEN at
    ELSE LET comp == Head(comps) IN
         IF comp = <<>> \/ comp = <<".">> THEN Walk(Tail(comps), at)
         ELSE IF comp = <<"..">>
         THEN Walk(Tail(comps),
                   IF at = <<>> THEN at ELSE SubSeq(at, 1, Len(at) - 1))
         ELSE IF Len(comp) = 1 THEN Walk(Tail(comps), Append(at, comp[1]))
         ELSE Walk(Tail(comps), Append(at, "?"))

Location(absolute_path) == Walk(Split(absolute_path, "/"), <<>>)

\* os.path.exists / os.path.isfile
exists(absolute_path) == Location(absolute_path) \in Files \cup Directories
isfile(absolute_path) == Location(absolute_path) \in Files

\* str(n) for a natural number, as decimal digit tokens
Digit(d) == <<"0", "1", "2", "3", "4", "5", "6", "7", "8", "9">>[d + 1]

RECURSIVE Str(_)
Str(n) == IF n < 10 THEN <<Digit(n)>> ELSE Str(n \div 10) \o <<Digit(n % 10)>>

\* HTTPServer._guess_content_type
_guess_content_type(absolute_path) ==
    IF absolute_path[Len(absolute_path)] = "style.css"
    THEN "text/css; charset=utf-8"
    ELSE "application/octet-stream"

Headers(content_type, body) ==
    [ContentType |-> content_type, ContentLength |-> Str(Len(body)),
     Connection |-> "close"]

\* HTTPServer._forbidden
_forbidden ==
    LET body == <<"4", "0", "3", " ", "F", "o", "r", "b", "i", "d", "d", "e", "n">>
    IN [status_code |-> 403, reason |-> "Forbidden", body |-> body,
        headers |-> Headers("text/plain; charset=utf-8", body)]

\* HTTPServer._not_found
_not_found ==
    LET body == <<"4", "0", "4", " ", "N", "o", "t", " ", "F", "o", "u", "n", "d">>
    IN [status_code |-> 404, reason |-> "Not Found", body |-> body,
        headers |-> Headers("text/plain; charset=utf-8", body)]

NoFile == <<"-">>

\* a guard that compares the location the path leads to with the root
UnderStaticRootResolved(absolute_path) ==
    LET at == Location(absolute_path)
        root == Location(static_root)
    IN Len(at) >= Len(root) /\ SubSeq(at, 1, Len(root)) = root

\* the test that guards file access in serve_static
UnderStaticRoot(absolute_path) == StartsWith(absolute_path, static_root)

\* HTTPServer.serve_static: served is FALSE when the method returns None,
\* read is the location of the file it opened (NoFile when it opened none)
serve_static(path) ==
    LET normalized == LStrip(normpath(path), {"/"})
        absolute_path == join(static_root, normalized)
    IN IF ~UnderStaticRoot(absolute_path)
       THEN [served |-> TRUE, read |-> NoFile, response |-> _forbidden]
       ELSE IF ~exists(absolute_path) \/ ~isfile(absolute_path)
       THEN [served |-> FALSE, read |-> NoFile, response |-> _not_found]
       ELSE LET data == FileData(Location(absolute_path))
            IN [served |-> TRUE, read |-> Location(absolute_path),
                response |-> [status_code |-> 200, reason |-> "OK", body |-> data,
                              headers |-> Headers(_guess_content_type(absolute_path), data)]]

-----------------------------------------------------------------------------
(* http_types.py: HTTPRequest._parse, and the framing helpers of server.py *)

CRLF == "\r\n"

\* index of the first b"\r\n\r\n" in data, 0 when there is none
SepIndex(data) ==
    LET hits == {i \in 1..(Len(data) - 1) : data[i] = CRLF /\ data[i + 1] = CRLF}
    IN IF hits = {} THEN 0 ELSE CHOOSE i \in hits : \A j \in hits : i <= j

\* b"\r\n\r\n" in request_data
HasSeparator(data) == SepIndex(data) # 0

\* data.split(b"\r\n\r\n", 1)[0]
HeaderSection(data) ==
    IF HasSeparator(data) THEN SubSeq(data, 1, SepIndex(data) - 1) ELSE data

\* data.split(b"\r\n\r\n", 1)[1], and the third part of data.partition
BodySection(data) ==
    IF HasSeparator(data) THEN SubSeq(data, SepIndex(data) + 2, Len(data)) ELSE <<>>

DigitValue(t) ==
    CASE t = "0" -> 0 [] t = "1" -> 1 [] t = "2" -> 2 [] t = "3" -> 3
      [] t = "4" -> 4 [] t = "5" -> 5 [] t = "6" -> 6 [] t = "7" -> 7
      [] t = "8" -> 8 [] t = "9" -> 9 [] OTHER -> -1

RECURSIVE DigitsValue(_, _)
DigitsValue(digits, acc) ==
    IF digits = <<>> THEN acc
    ELSE DigitsValue(Tail(digits), 10 * acc + DigitValue(Head(digits)))

AllDigits(s) == s # <<>> /\ \A i \in DOMAIN s : DigitValue(s[i]) >= 0

\* int(value): ok is FALSE where Python raises ValueError
ParseInt(value) ==
    IF AllDigits(value) THEN [ok |-> TRUE, n |-> DigitsValue(value, 0)]
    ELSE IF value # <<>> /\ Head(value) \in {"-", "+"} /\ AllDigits(Tail(value))
    THEN [ok |-> TRUE,
          n |-> IF Head(value) = "-" THEN 0 - DigitsValue(Tail(value), 0)
                ELSE DigitsValue(Tail(value), 0)]
    ELSE [ok |-> FALSE, n |-> 0]

\* line.split(":", 1)[1]
AfterColon(line) ==
    LET i == CHOOSE k \in DOMAIN line :
                 line[k] = ":" /\ \A j \in 1..(k - 1) : line[j] # ":"
    IN SubSeq(line, i + 1, Len(line))

IsContentLengthLine(line) == StartsWith(Lower(line), <<"content-length", ":">>)

\* HTTPServer._extract_content_length: the loop over the header lines
RECURSIVE ContentLengthFrom(_)
ContentLengthFrom(lines) ==
    IF lines = <<>> THEN 0
    ELSE IF IsContentLengthLine(Head(lines))
    THEN LET parsed == ParseInt(Strip(AfterColon(Head(lines)), {" "}))
         IN IF parsed.ok THEN parsed.n ELSE 0
    ELSE ContentLengthFrom(Tail(lines))

_extract_content_length(data) ==
    ContentLengthFrom(Split(HeaderSection(data), CRLF))

\* a READ loop that stops at the separator without waiting for the body
LoopBreakAtSeparator(data) == HasSeparator(data)

\* the two break tests that follow a non-empty chunk in _handle_client
LoopBreak(data) ==
    /\ HasSeparator(data)
    /\ LET content_length == _extract_content_length(data)
       IN \/ content_length = 0
          \/ Len(BodySection(data)) >= content_length

\* index of the first "?" of a request target, 0 when there is none
QueryIndex(target) ==
    LET hits == {i \in DOMAIN target : target[i] = "?"}
    IN IF hits = {} THEN 0 ELSE CHOOSE i \in hits : \A j \in hits : i <= j

\* HTTPRequest.__init__ / _parse (method, path, query and body)
HTTPRequest(raw_data) ==
    LET header_lines == Split(HeaderSection(raw_data), CRLF)
        parts == NonEmpty(Split(header_lines[1], " "))
        method == IF Len(parts) >= 1 THEN parts[1] ELSE <<>>
        full_path == IF Len(parts) >= 2 THEN parts[2] ELSE <<"/">>
        q == QueryIndex(full_path)
        path_part == IF q = 0 THEN full_path ELSE SubSeq(full_path, 1, q - 1)
    IN [method |-> method,
        path |-> IF path_part = <<>> THEN <<"/">> ELSE path_part,
        query |-> IF q = 0 THEN <<>> ELSE SubSeq(full_path, q + 1, Len(full_path)),
        body |-> BodySection(raw_data)]

-----------------------------------------------------------------------------
(* server.py: _dispatch                                                    *)

\* the UTF-8 bytes of the characters of the fixed messages of handlers.py
CjkBytes ==
    [c \in {"U+529F", "U+80FD", "U+5EFA", "U+8BBE", "U+4E2D", "U+672A",
            "U+627E", "U+5230", "U+5185", "U+5BB9", "U+6A21", "U+677F",
            "U+7F3A", "U+5C11", "U+5360", "U+4F4D", "U+7B26", "U+FF1A"} |->
        CASE c = "U+529F" -> <<"xE5", "x8A", "x9F">>
          [] c = "U+80FD" -> <<"xE8", "x83", "xBD">>
          [] c = "U+5EFA" -> <<"xE5", "xBB", "xBA">>
          [] c = "U+8BBE" -> <<"xE8", "xAE", "xBE">>
          [] c = "U+4E2D" -> <<"xE4", "xB8", "xAD">>
          [] c = "U+672A" -> <<"xE6", "x9C", "xAA">>
          [] c = "U+627E" -> <<"xE6", "x89", "xBE">>
          [] c = "U+5230" -> <<"xE5", "x88", "xB0">>
          [] c = "U+5185" -> <<"xE5", "x86", "x85">>
          [] c = "U+5BB9" -> <<"xE5", "xAE", "xB9">>
          [] c = "U+6A21" -> <<"xE6", "xA8", "xA1">>
          [] c = "U+677F" -> <<"xE6", "x9D", "xBF">>
          [] c = "U+7F3A" -> <<"xE7", "xBC", "xBA">>
          [] c = "U+5C11" -> <<"xE5", "xB0", "x91">>
          [] c = "U+5360" -> <<"xE5", "x8D", "xA0">>
          [] c = "U+4F4D" -> <<"xE4", "xBD", "x8D">>
          [] c = "U+7B26" -> <<"xE7", "xAC", "xA6">>
          [] c = "U+FF1A" -> <<"xEF", "xBC", "x9A">>]

\* str.encode("utf-8") of one character: besides the characters of the fixed
\* messages the model's only non-ASCII character is U+9519, three bytes long
Utf8Char(c) ==
    IF c = "U+9519" THEN <<"xE9", "x94", "x99">>
    ELSE IF c \in DOMAIN CjkBytes THEN CjkBytes[c]
    ELSE <<c>>

\* str.encode("utf-8")
RECURSIVE Utf8(_)
Utf8(text) == IF text = <<>> THEN <<>> ELSE Utf8Char(Head(text)) \o Utf8(Tail(text))

ErrorPrefix ==
    <<"I", "n", "t", "e", "r", "n", "a", "l", " ", "S", "e", "r", "v", "e", "r",
      " ", "E", "r", "r", "o", "r", ":", " ">>

\* a 500 response whose Content-Length counts characters, not bytes
InternalServerErrorCharLength(exc) ==
    LET error_message == Utf8(ErrorPrefix \o exc)
    IN [status_code |-> 500, reason |-> "Internal Server Error",
        body |-> error_message,
        headers |-> Headers("text/plain; charset=utf-8", ErrorPrefix \o exc)]

\* the except branch of _dispatch: the 500 response for exception exc
InternalServerError(exc) ==
    LET error_message == Utf8(ErrorPrefix \o exc)
    IN [status_code |-> 500, reason |-> "Internal Server Error",
        body |-> error_message,
        headers |-> Headers("text/plain; charset=utf-8", error_message)]

\* what a matched handler can do: return a response or raise an exception
\* whose str() is description
HandlerResponses ==
    { [status_code |-> 200, reason |-> "OK", body |-> <<"o", "k">>,
       headers |-> Headers("text/html; charset=utf-8", <<"o", "k">>)],
      [status_code |-> 302, reason |-> "Found", body |-> <<>>,
       headers |-> Headers("text/html; charset=utf-8", <<>>)] }

ExceptionDescriptions == { <<>>, <<"b", "a", "d">>, <<"U+9519", "!">> }

HandlerOutcomes ==
    {[kind |-> "return", response |-> r, description |-> <<>>] : r \in HandlerResponses}
    \cup
    {[kind |-> "raise", response |-> _not_found, description |-> d] :
        d \in ExceptionDescriptions}

\* elapsed wall-clock time of a handler call, in milliseconds;
\* time.perf_counter is monotonic
ElapsedValues == {0, 4}

\* the row _record_metric hands to PerformanceMetricModel.record_metric
MetricRow(elapsed_ms, request_count) ==
    [latency_ms |-> elapsed_ms,
     throughput |-> IF elapsed_ms <= 0 THEN 0 ELSE 1000 \div elapsed_ms,
     rtt |-> elapsed_ms,
     request_count |-> request_count]

StaticPrefix == <<"/", "static", "/">>

\* HTTPServer._dispatch with the handler's behaviour given by outcome.
\* branch names the return statement taken, recorded whether the finally
\* block ran _record_metric.
_dispatch(request, outcome) ==
    LET static == IF StartsWith(request.path, StaticPrefix)
                  THEN serve_static(SubSeq(request.path, Len(StaticPrefix) + 1,
                                           Len(request.path)))
                  ELSE [served |-> FALSE, read |-> NoFile, response |-> _not_found]
        match == Resolve(ConfiguredRoutes, request.path, request.method)
    IN IF static.served
       THEN [branch |-> "static", response |-> static.response,
             recorded |-> FALSE, read |-> static.read, handler |-> "",
             raised |-> FALSE, propagated |-> FALSE]
       ELSE IF ~match.found
       THEN [branch |-> "not_found", response |-> _not_found,
             recorded |-> FALSE, read |-> NoFile, handler |-> "",
             raised |-> FALSE, propagated |-> FALSE]
       ELSE IF outcome.kind = "raise"
       THEN [branch |-> "handler", response |-> InternalServerError(outcome.description),
             recorded |-> TRUE, read |-> NoFile, handler |-> match.handler,
             raised |-> TRUE, propagated |-> FALSE]
       ELSE [branch |-> "handler", response |-> outcome.response,
             recorded |-> TRUE, read |-> NoFile, handler |-> match.handler,
             raised |-> FALSE, propagated |-> FALSE]

\* _handle_client after the READ loop: return on an empty buffer
AfterLoop(data) == IF data = <<>> THEN "closing" ELSE "dispatch"

\* a connection kept alive: back to the READ loop after the response
AfterSendKeepAlive == "read"

\* _handle_client after sendall: the with block is left
AfterSend == "closing"

-----------------------------------------------------------------------------
(* Initial values of each part of the state.                               *)

NoResponse == [status_code |-> 0, reason |-> "", body |-> <<>>,
               headers |-> Headers("", <<>>)]

NoDispatch == [count |-> 0, conn |-> 0, branch |-> "", read |-> NoFile,
               handler |-> "", raised |-> FALSE, description |-> <<>>,
               rowsBefore |-> 0]

NoStaticCall == [called |-> FALSE, path |-> <<>>, served |-> FALSE,
                 read |-> NoFile, status_code |-> 0]

Users == {"alice", "bob"}
None == "None"

\* uuid4().hex values: 1..MaxTokens name the values uuid4 returns, in the
\* order it returns them and never twice; Forged is a token a client made
\* up, which uuid4 never returns
Tokens == 1..MaxTokens
Forged == 0
AllTokens == Tokens \cup {Forged}

NoCall == [name |-> "", token |-> Forged, username |-> None, afterDestroy |-> FALSE]

RouterConstructed == routes = ConfiguredRoutes /\ lastResolve = NoResolve

StaticIdle == staticCall = NoStaticCall

ServerIdle ==
    /\ pc = "listening" /\ wire = <<>> /\ delivered = 0 /\ peerClosed = FALSE
    /\ request_data = <<>> /\ readStop = "none" /\ response = NoResponse
    /\ sockOut = <<>> /\ sockClosed = FALSE /\ recvCalls = 0 /\ connCount = 0
    /\ dispatchLog = NoDispatch

MetricIdle ==
    /\ _request_counter = 0 /\ metrics = <<>>
    /\ mpc = [t \in Threads |-> "idle"]
    /\ mLocal = [t \in Threads |-> 0]
    /\ mArg = [t \in Threads |-> 0]
    /\ mCalls = 0

DbIdle ==
    /\ lock = NoThread
    /\ dpc = [t \in Threads |-> "idle"]
    /\ dOp = [t \in Threads |-> ""]
    /\ dRaised = [t \in Threads |-> FALSE]

SessionIdle ==
    /\ _sessions = [k \in AllTokens |-> None]
    /\ sLock = NoThread
    /\ spc = [t \in Threads |-> "idle"]
    /\ sOp = [t \in Threads |-> NoCall]
    /\ sRet = [t \in Threads |-> None]
    /\ issued = [k \in AllTokens |-> None]
    /\ destroyed = {}

NoBuilt == [called |-> FALSE, by |-> "", response |-> NoResponse]

ResponseIdle == built = NoBuilt

NoRendering == [called |-> FALSE, template_name |-> <<>>, context |-> <<>>,
                main_content |-> <<>>, rendered |-> <<>>, response |-> NoResponse]

RenderIdle == rendering = NoRendering

SanitizerIdle == sanPass = 0 /\ sanInput = <<>> /\ sanFirst = <<>> /\ sanOutput = <<>>

\* the derived views of a request
Views == {"get_query_params", "get_cookies", "get_form_data", "get_files", "get_json"}

\* no HTTPRequest object; an Optional attribute is <<>> for None and <<v>>
\* for the value v, a dict is the set of its (key, value) items
NoRequest ==
    [constructed |-> FALSE, method |-> <<>>, path |-> <<>>, query |-> <<>>,
     headers |-> {}, body |-> <<>>,
     _query_params_cache |-> <<>>, _form_params_cache |-> <<>>,
     _cookies_cache |-> <<>>, _files_cache |-> <<>>, _json_cache |-> <<>>]

NoAccess == [view |-> "", raised |-> FALSE, result |-> <<>>, count |-> 0]

RequestIdle ==
    /\ req = NoRequest
    /\ access = NoAccess
    /\ firstAccess = [v \in Views |-> <<>>]
    /\ computed = [v \in Views |-> 0]
    /\ mutations = 0

\* a request without a session_id cookie
NoCookie == 0 - 1

\* no handler of the account flow has returned yet
NoFlow ==
    [handler |-> "", username |-> None, known |-> FALSE, cookie |-> NoCookie,
     target |-> <<>>, raised |-> FALSE, status_code |-> 0, location |-> "",
     set_cookie |-> NoCookie, page |-> "", page_user |-> None]

NoRegistration == [active |-> FALSE, username |-> <<>>, password |-> <<>>]

AuthIdle ==
    /\ users = {}
    /\ registering = [t \in Threads |-> NoRegistration]
    /\ registered = {}
    /\ flow = NoFlow

\* the two tables InteractionModel toggles rows of
ToggleTables == {"likes", "favorites"}

\* a thread that is not inside toggle_like or toggle_favorite
NoToggle ==
    [pc |-> "idle", call |-> 0, table |-> "", user_id |-> 0, post_id |-> "",
     existing |-> {}, returned |-> "", left |-> 0]

InteractionIdle ==
    /\ tables = [tb \in ToggleTables |-> {}]
    /\ toggles = [t \in Threads |-> NoToggle]
    /\ toggleCalls = 0

\* the tables whose rows reference a post
DependentTables == {"comments", "likes", "favorites"}

\* a connection thread that is in no handler of the post model
NoHandling ==
    [pc |-> "idle", handler |-> "", call |-> 0, user_id |-> 0, post_id |-> "",
     existing |-> {}]

RemovalIdle ==
    /\ posts = {}
    /\ dependents = [tb \in DependentTables |-> {}]
    /\ handling = [t \in Threads |-> NoHandling]
    /\ handled = 0
    /\ deletedPosts = {}

\* no handler of the post pages has answered yet
NoAnswer ==
    [handler |-> "", post_id |-> "", user |-> None, cookie |-> "",
     status_code |-> 0, disclosed |-> FALSE, body |-> <<>>]

VisibilityIdle ==
    /\ library = {}
    /\ grants = {}
    /\ bookmarks = {}
    /\ follows = {}
    /\ shown = NoAnswer

\* no request has removed a subscription yet
NoCancel == [handler |-> "", user_id |-> 0, status_code |-> 0, removed |-> {}]

SubscriptionIdle ==
    /\ subscription_rows = {}
    /\ subscriptionsMade = 0
    /\ cancelled = NoCancel

\* a thread that is not inside a MessageAPI handler; status_code is the
\* answer of the last one it ran
NoMessageCall == [pc |-> "idle", handler |-> "", user_id |-> 0, message_id |-> 0,
                  seen |-> {}, status_code |-> 0]

\* no statement has changed a message yet
NoMove == [handler |-> "", user_id |-> 0, before |-> {}, status |-> ""]

MessageIdle ==
    /\ mailbox = {}
    /\ messagesSent = 0
    /\ inflight = [t \in Threads |-> NoMessageCall]
    /\ moved = NoMove

ExtIdle == ResponseIdle /\ RenderIdle /\ SanitizerIdle /\ RequestIdle /\ AuthIdle /\ InteractionIdle /\ RemovalIdle /\ VisibilityIdle /\ SubscriptionIdle /\ MessageIdle

-----------------------------------------------------------------------------
(* Router: add_route and resolve on a router under construction.           *)

\* the registrations the router model draws from: routes of
\* _configure_routes, the method written in either case
Registrations ==
    { <<<<"/">>, <<"get">>>>,
      <<<<"/", "posts", "/", "new">>, <<"get">>>>,
      <<<<"/", "posts", "/", "new">>, <<"POST">>>>,
      <<<<"/", "posts", "/", "<", "post_id", ">">>, <<"get">>>> }

RequestMethods == { <<"GET">>, <<"get">> }

\* request paths: every path over the tokens of the templates, and every
\* path one token shorter with a literal in another letter case
RequestPaths ==
    SeqsUpTo({"/", "posts", "new"}, MaxPathLen)
    \cup SeqsUpTo({"/", "Posts", "new"}, MaxPathLen - 1)

\* handlers are distinct callables: the i-th registration passes the i-th
HandlerName(i) == <<"h1", "h2", "h3", "h4">>[i]

add_route(path, method) ==
    /\ ~lastResolve.called
    /\ Len(routes) < MaxRoutes
    /\ routes' = Append(routes, RouteEntry(path, method, HandlerName(Len(routes) + 1)))
    /\ UNCHANGED <<lastResolve, staticVars, serverVars, metricVars, dbVars, sessionVars, extVars>>

\* one call of Router.resolve; the caller consumes the result in ResolveReturn
resolve(path, method) ==
    /\ ~lastResolve.called
    /\ lastResolve' = [called |-> TRUE, path |-> path, method |-> method,
                       result |-> Resolve(routes, path, method)]
    /\ UNCHANGED <<routes, staticVars, serverVars, metricVars, dbVars, sessionVars, extVars>>

\* the caller of resolve has used the match
ResolveReturn ==
    /\ lastResolve.called
    /\ lastResolve' = NoResolve
    /\ UNCHANGED <<routes, staticVars, serverVars, metricVars, dbVars, sessionVars, extVars>>

RouterInit ==
    /\ routes = <<>> /\ lastResolve = NoResolve
    /\ StaticIdle /\ ServerIdle /\ MetricIdle /\ DbIdle /\ SessionIdle
    /\ ExtIdle

RouterNext ==
    \/ \E reg \in Registrations : add_route(reg[1], reg[2])
    \/ \E path \in RequestPaths, method \in RequestMethods :
           resolve(path, method)
    \/ ResolveReturn

RouterSpec == RouterInit /\ [][RouterNext]_vars

-----------------------------------------------------------------------------
(* Static files: the first branch of _dispatch for a path under /static/.  *)

StaticAlphabet == {"/", ".", "..", "style.css", "server.py"}

StaticRequest(path) ==
    /\ ~staticCall.called
    /\ LET r == serve_static(path)
       IN staticCall' = [called |-> TRUE, path |-> path, served |-> r.served,
                         read |-> r.read,
                         status_code |-> IF r.served THEN r.response.status_code ELSE 0]
    /\ UNCHANGED <<routerVars, serverVars, metricVars, dbVars, sessionVars, extVars>>

\* the response has been handed back to _handle_client
StaticReturn ==
    /\ staticCall.called
    /\ staticCall' = NoStaticCall
    /\ UNCHANGED <<routerVars, serverVars, metricVars, dbVars, sessionVars, extVars>>

StaticInit ==
    /\ RouterConstructed /\ StaticIdle /\ ServerIdle /\ MetricIdle /\ DbIdle
    /\ SessionIdle /\ ExtIdle

StaticNext ==
    \/ \E path \in SeqsUpTo(StaticAlphabet, MaxStatic) : StaticRequest(path)
    \/ StaticReturn

StaticSpec == StaticInit /\ [][StaticNext]_vars

-----------------------------------------------------------------------------------------------------------------------------------------------------
(* Connection server: accept loop and _handle_client, one connection at a  *)
(* time.  The peer's bytes are wire; recv returns them in chunks of any    *)
(* size up to MaxChunk tokens; a peer that closes early has sent a prefix. *)

RequestLines ==
    { <<"GET", " ", "/", "static", "/", "style.css">>,
      <<"GET", " ", "/", "static", "/", "..", "/", "server.py">>,
      <<"GET", " ", "/", "posts", "/", "7">>,
      <<"POST", " ", "/", "posts", "/", "new">>,
      <<"GET", " ", "/", "nothing">> }

ContentLengthLine(value) == <<"Content-Length", ":", " ">> \o value \o <<CRLF>>

HeaderBlocks ==
    { <<>>,
      ContentLengthLine(<<"0">>),
      ContentLengthLine(Str(MaxBody)),
      ContentLengthLine(<<"x">>) }

Bodies == {[i \in 1..n |-> "b"] : n \in 0..MaxBody}

Wires ==
    { line \o <<" ", "HTTP/1.1", CRLF>> \o block \o <<CRLF>> \o body :
        line \in RequestLines, block \in HeaderBlocks, body \in Bodies }

\* start: accept returns a socket and _handle_client starts on it
Accept(w) ==
    /\ pc \in {"listening", "closed"}
    /\ connCount < MaxConns
    /\ connCount' = connCount + 1
    /\ pc' = "read"
    /\ wire' = w
    /\ delivered' = 0
    /\ peerClosed' = FALSE
    /\ request_data' = <<>>
    /\ readStop' = "none"
    /\ response' = NoResponse
    /\ sockOut' = <<>>
    /\ sockClosed' = FALSE
    /\ recvCalls' = 0
    /\ dispatchLog' = [NoDispatch EXCEPT !.count = dispatchLog.count]
    /\ UNCHANGED <<routerVars, staticVars, metricVars, dbVars, sessionVars, extVars>>

\* one iteration of the READ loop in which recv returns n tokens
Recv(n) ==
    /\ pc = "read"
    /\ ~peerClosed
    /\ n \in 1..Min(MaxChunk, Len(wire) - delivered)
    /\ LET data == request_data \o SubSeq(wire, delivered + 1, delivered + n)
       IN /\ request_data' = data
          /\ IF LoopBreak(data)
             THEN pc' = AfterLoop(data) /\ readStop' = "framed"
             ELSE pc' = "read" /\ readStop' = "none"
    /\ delivered' = delivered + n
    /\ recvCalls' = IF sockOut # <<>> THEN recvCalls + 1 ELSE recvCalls
    /\ UNCHANGED <<wire, peerClosed, response, sockOut, sockClosed, connCount,
                   dispatchLog, routerVars, staticVars, metricVars, dbVars,
                   sessionVars, extVars>>

\* the peer shuts down its sending side; what it has not sent is never sent
PeerClose ==
    /\ pc = "read"
    /\ ~peerClosed
    /\ peerClosed' = TRUE
    /\ UNCHANGED <<pc, wire, delivered, request_data, readStop, response, sockOut,
                   sockClosed, recvCalls, connCount, dispatchLog, routerVars,
                   staticVars, metricVars, dbVars, sessionVars, extVars>>

\* the iteration of the READ loop in which recv returns b"": break
RecvEOF ==
    /\ pc = "read"
    /\ peerClosed
    /\ readStop' = "eof"
    /\ pc' = AfterLoop(request_data)
    /\ recvCalls' = IF sockOut # <<>> THEN recvCalls + 1 ELSE recvCalls
    /\ UNCHANGED <<wire, delivered, peerClosed, request_data, response, sockOut,
                   sockClosed, connCount, dispatchLog, routerVars, staticVars,
                   metricVars, dbVars, sessionVars, extVars>>

\* request = HTTPRequest(request_data); response = self._dispatch(request),
\* with _record_metric run by the finally block
Dispatch(outcome, elapsed_ms) ==
    /\ pc = "dispatch"
    /\ \E d \in {_dispatch(HTTPRequest(request_data), outcome)} :
          /\ response' = d.response
          /\ pc' = IF d.propagated THEN "closing" ELSE "send"
          /\ IF d.recorded /\ elapsed_ms >= 0
             THEN /\ _request_counter' = _request_counter + 1
                  /\ metrics' = Append(metrics,
                                       MetricRow(elapsed_ms, _request_counter + 1))
             ELSE UNCHANGED <<_request_counter, metrics>>
          /\ dispatchLog' =
               [count |-> dispatchLog.count + 1, conn |-> connCount,
                branch |-> d.branch, read |-> d.read, handler |-> d.handler,
                raised |-> d.raised,
                description |-> IF d.raised THEN outcome.description ELSE <<>>,
                rowsBefore |-> Len(metrics)]
    /\ UNCHANGED <<wire, delivered, peerClosed, request_data, readStop, sockOut,
                   sockClosed, recvCalls, connCount, mpc, mLocal, mArg, mCalls,
                   routerVars, staticVars, dbVars, sessionVars, extVars>>

\* client_socket.sendall(response.to_bytes())
Send ==
    /\ pc = "send"
    /\ sockOut' = Append(sockOut, response)
    /\ pc' = AfterSend
    /\ UNCHANGED <<wire, delivered, peerClosed, request_data, readStop, response,
                   sockClosed, recvCalls, connCount, dispatchLog, routerVars,
                   staticVars, metricVars, dbVars, sessionVars, extVars>>

\* leaving "with client_socket": the socket is closed and the thread ends
Close ==
    /\ pc = "closing"
    /\ sockClosed' = TRUE
    /\ pc' = "closed"
    /\ UNCHANGED <<wire, delivered, peerClosed, request_data, readStop, response,
                   sockOut, recvCalls, connCount, dispatchLog, routerVars,
                   staticVars, metricVars, dbVars, sessionVars, extVars>>

ServerInit ==
    /\ RouterConstructed /\ StaticIdle /\ ServerIdle /\ MetricIdle /\ DbIdle
    /\ SessionIdle /\ ExtIdle

ServerNext ==
    \/ \E w \in Wires : Accept(w)
    \/ \E n \in 1..MaxChunk : Recv(n)
    \/ PeerClose
    \/ RecvEOF
    \/ \E outcome \in HandlerOutcomes, elapsed_ms \in ElapsedValues :
           Dispatch(outcome, elapsed_ms)
    \/ Send
    \/ Close

ServerSpec == ServerInit /\ [][ServerNext]_vars

-----------------------------------------------------------------------------
(* _record_metric called by concurrent connection threads.  The statement  *)
(* self._request_counter += 1 is a read followed by a write, and the       *)
(* counter is read again for the argument of record_metric; nothing        *)
(* excludes other threads between these steps.  The INSERT runs inside     *)
(* Database.execute, which holds Database.lock for the statement.          *)

\* the finally block of _dispatch calls _record_metric; elapsed >= 0
RecordMetricBegin(t) ==
    /\ mpc[t] = "idle"
    /\ mCalls < MaxCalls
    /\ mCalls' = mCalls + 1
    /\ mpc' = [mpc EXCEPT ![t] = "load"]
    /\ UNCHANGED <<_request_counter, metrics, mLocal, mArg, routerVars, staticVars,
                   serverVars, dbVars, sessionVars, extVars>>

\* += : read self._request_counter
LoadCounter(t) ==
    /\ mpc[t] = "load"
    /\ mLocal' = [mLocal EXCEPT ![t] = _request_counter]
    /\ mpc' = [mpc EXCEPT ![t] = "store"]
    /\ UNCHANGED <<_request_counter, metrics, mArg, mCalls, routerVars, staticVars,
                   serverVars, dbVars, sessionVars, extVars>>

\* += : write self._request_counter
StoreCounter(t) ==
    /\ mpc[t] = "store"
    /\ _request_counter' = mLocal[t] + 1
    /\ mpc' = [mpc EXCEPT ![t] = "argument"]
    /\ UNCHANGED <<metrics, mLocal, mArg, mCalls, routerVars, staticVars,
                   serverVars, dbVars, sessionVars, extVars>>

\* the argument self._request_counter of record_metric is evaluated
ReadCounter(t) ==
    /\ mpc[t] = "argument"
    /\ mArg' = [mArg EXCEPT ![t] = _request_counter]
    /\ mpc' = [mpc EXCEPT ![t] = "insert"]
    /\ UNCHANGED <<_request_counter, metrics, mLocal, mCalls, routerVars, staticVars,
                   serverVars, dbVars, sessionVars, extVars>>

\* PerformanceMetricModel.record_metric: the INSERT, under Database.lock
InsertRow(t, elapsed_ms) ==
    /\ mpc[t] = "insert"
    /\ lock = NoThread
    /\ metrics' = Append(metrics, MetricRow(elapsed_ms, mArg[t]))
    /\ mpc' = [mpc EXCEPT ![t] = "idle"]
    /\ UNCHANGED <<_request_counter, mLocal, mArg, mCalls, routerVars, staticVars,
                   serverVars, dbVars, sessionVars, extVars>>

MetricInit ==
    /\ RouterConstructed /\ StaticIdle /\ ServerIdle /\ MetricIdle /\ DbIdle
    /\ SessionIdle /\ ExtIdle

MetricNext ==
    \E t \in Threads :
        \/ RecordMetricBegin(t)
        \/ LoadCounter(t)
        \/ StoreCounter(t)
        \/ ReadCounter(t)
        \/ \E elapsed_ms \in ElapsedValues : InsertRow(t, elapsed_ms)

MetricSpec == MetricInit /\ [][MetricNext]_vars

-----------------------------------------------------------------------------
(* database.py: the five statement methods, each "with self.lock:".        *)

DatabaseMethods ==
    {"execute", "execute_many", "fetch_one", "fetch_all", "transactional"}

\* a with block that keeps the lock when its body raises
KeptOnRaise(raised) == ~raised

\* "with self.lock" releases the lock on normal and on exceptional exit
ReleasedOnExit(raised) == TRUE

\* a thread calls one of the methods and reaches "with self.lock"
DbCall(t, method) ==
    /\ dpc[t] = "idle"
    /\ dpc' = [dpc EXCEPT ![t] = "waiting"]
    /\ dOp' = [dOp EXCEPT ![t] = method]
    /\ dRaised' = [dRaised EXCEPT ![t] = FALSE]
    /\ UNCHANGED <<lock, routerVars, staticVars, serverVars, metricVars, sessionVars, extVars>>

\* Lock.__enter__
DbAcquire(t) ==
    /\ dpc[t] = "waiting"
    /\ lock = NoThread
    /\ lock' = t
    /\ dpc' = [dpc EXCEPT ![t] = "inside"]
    /\ UNCHANGED <<dOp, dRaised, routerVars, staticVars, serverVars, metricVars,
                   sessionVars, extVars>>

\* the body: connect, execute the statement (or the operation of
\* transactional, rolled back and re-raised on failure), commit or fetch
DbStatement(t, ok) ==
    /\ dpc[t] = "inside"
    /\ dRaised' = [dRaised EXCEPT ![t] = ~ok]
    /\ dpc' = [dpc EXCEPT ![t] = "exit"]
    /\ UNCHANGED <<lock, dOp, routerVars, staticVars, serverVars, metricVars,
                   sessionVars, extVars>>

\* Lock.__exit__, then the method returns or the exception propagates
DbRelease(t) ==
    /\ dpc[t] = "exit"
    /\ lock' = IF ReleasedOnExit(dRaised[t]) THEN NoThread ELSE lock
    /\ dpc' = [dpc EXCEPT ![t] = "idle"]
    /\ UNCHANGED <<dOp, dRaised, routerVars, staticVars, serverVars, metricVars,
                   sessionVars, extVars>>

DbInit ==
    /\ RouterConstructed /\ StaticIdle /\ ServerIdle /\ MetricIdle /\ DbIdle
    /\ SessionIdle /\ ExtIdle

DbNext ==
    \E t \in Threads :
        \/ \E method \in DatabaseMethods : DbCall(t, method)
        \/ DbAcquire(t)
        \/ \E ok \in BOOLEAN : DbStatement(t, ok)
        \/ DbRelease(t)

DbSpec == DbInit /\ [][DbNext]_vars

-----------------------------------------------------------------------------
(* session.py: SessionManager under concurrent calls.  A client can pass   *)
(* to get_username and destroy_session (logout) only a token that          *)
(* create_session has returned, or one it made up.                         *)

\* create_session has returned token k
Returned(k) ==
    /\ issued[k] # None
    /\ \A t \in Threads :
          ~(spc[t] # "idle" /\ sOp[t].name = "create" /\ sOp[t].token = k)

\* destroy_session(k) has been called (it may still be running)
DestroyCalled(k) ==
    \/ k \in destroyed
    \/ \E t \in Threads :
          spc[t] # "idle" /\ sOp[t].name = "destroy" /\ sOp[t].token = k

Presentable == {k \in AllTokens : k = Forged \/ Returned(k)}

\* a destroy that empties the whole mapping
ClearAll(sessions, k) == [j \in DOMAIN sessions |-> None]

\* "if session_id in self._sessions: del self._sessions[session_id]"
Delete(sessions, k) == [sessions EXCEPT ![k] = None]

\* create_session: token = uuid.uuid4().hex
CreateCall(t, username, k) ==
    /\ spc[t] = "idle"
    /\ issued[k] = None
    /\ \A j \in 1..(k - 1) : issued[j] # None
    /\ issued' = [issued EXCEPT ![k] = username]
    /\ sOp' = [sOp EXCEPT ![t] = [name |-> "create", token |-> k,
                                  username |-> username, afterDestroy |-> FALSE]]
    /\ spc' = [spc EXCEPT ![t] = "waiting"]
    /\ UNCHANGED <<_sessions, sLock, sRet, destroyed, routerVars, staticVars,
                   serverVars, metricVars, dbVars, extVars>>

\* get_username(k) is called
GetCall(t, k) ==
    /\ spc[t] = "idle"
    /\ k \in Presentable
    /\ sOp' = [sOp EXCEPT ![t] = [name |-> "get", token |-> k, username |-> None,
                                  afterDestroy |-> k \in destroyed]]
    /\ spc' = [spc EXCEPT ![t] = "waiting"]
    /\ UNCHANGED <<_sessions, sLock, sRet, issued, destroyed, routerVars, staticVars,
                   serverVars, metricVars, dbVars, extVars>>

\* destroy_session(k) is called, by UserHandlers.logout through AuthService
DestroyCall(t, k) ==
    /\ spc[t] = "idle"
    /\ k \in Presentable
    /\ sOp' = [sOp EXCEPT ![t] = [name |-> "destroy", token |-> k, username |-> None,
                                  afterDestroy |-> k \in destroyed]]
    /\ spc' = [spc EXCEPT ![t] = "waiting"]
    /\ UNCHANGED <<_sessions, sLock, sRet, issued, destroyed, routerVars, staticVars,
                   serverVars, metricVars, dbVars, extVars>>

\* "with self._lock": acquire
SessionAcquire(t) ==
    /\ spc[t] = "waiting"
    /\ sLock = NoThread
    /\ sLock' = t
    /\ spc' = [spc EXCEPT ![t] = "locked"]
    /\ UNCHANGED <<_sessions, sOp, sRet, issued, destroyed, routerVars, staticVars,
                   serverVars, metricVars, dbVars, extVars>>

\* the statement inside the with block of the method being executed
SessionBody(t) ==
    /\ spc[t] = "locked"
    /\ spc' = [spc EXCEPT ![t] = "unlock"]
    /\ CASE sOp[t].name = "create" ->
              /\ _sessions' = [_sessions EXCEPT ![sOp[t].token] = sOp[t].username]
              /\ sRet' = [sRet EXCEPT ![t] = None]
         [] sOp[t].name = "get" ->
              /\ sRet' = [sRet EXCEPT ![t] = _sessions[sOp[t].token]]
              /\ UNCHANGED _sessions
         [] OTHER ->
              /\ _sessions' = Delete(_sessions, sOp[t].token)
              /\ sRet' = [sRet EXCEPT ![t] = None]
    /\ UNCHANGED <<sLock, sOp, issued, destroyed, routerVars, staticVars, serverVars,
                   metricVars, dbVars, extVars>>

\* the with block is left and the method returns
SessionRelease(t) ==
    /\ spc[t] = "unlock"
    /\ sLock' = NoThread
    /\ spc' = [spc EXCEPT ![t] = "idle"]
    /\ destroyed' = IF sOp[t].name = "destroy" THEN destroyed \cup {sOp[t].token}
                    ELSE destroyed
    /\ sOp' = [sOp EXCEPT ![t] = NoCall]
    /\ sRet' = [sRet EXCEPT ![t] = None]
    /\ UNCHANGED <<_sessions, issued, routerVars, staticVars, serverVars,
                   metricVars, dbVars, extVars>>

SessionInit ==
    /\ RouterConstructed /\ StaticIdle /\ ServerIdle /\ MetricIdle /\ DbIdle
    /\ SessionIdle /\ ExtIdle

SessionNext ==
    \E t \in Threads :
        \/ \E username \in Users, k \in Tokens : CreateCall(t, username, k)
        \/ \E k \in AllTokens : GetCall(t, k)
        \/ \E k \in AllTokens : DestroyCall(t, k)
        \/ SessionAcquire(t)
        \/ SessionBody(t)
        \/ SessionRelease(t)

SessionSpec == SessionInit /\ [][SessionNext]_vars

-----------------------------------------------------------------------------
(* Connection server properties.                                           *)

LoopEnded == pc \in {"dispatch", "send", "closing", "closed"}

\* C1: on a connection the server writes at most one response, calls recv
\* no more once it has written, closes the socket only after writing, and a
\* closed connection has received exactly one response if its buffer was
\* non-empty and none if it was empty.
C1_OneRequestOneResponse ==
    /\ Len(sockOut) <= 1
    /\ recvCalls = 0
    /\ sockOut # <<>> => (request_data # <<>> /\ sockOut = <<response>>)
    /\ sockClosed => pc = "closed"
    /\ pc = "closed" =>
          /\ sockClosed
          /\ request_data # <<>> => Len(sockOut) = 1
          /\ request_data = <<>> => sockOut = <<>>

\* a connection closed after the 500 response of a raising handler was the
\* one response written
C1_Witness ==
    /\ pc = "closed"
    /\ dispatchLog.raised
    /\ Len(sockOut) = 1
    /\ sockOut[1].status_code = 500
    /\ sockClosed

\* the Content-Length a request declares: the integer of the first header
\* line that starts with "content-length:" in any letter case; nothing is
\* declared when there is no such line or its value is not an integer
DeclaredLength(data) ==
    LET lines == Split(HeaderSection(data), CRLF)
        declaring == {i \in DOMAIN lines : IsContentLengthLine(lines[i])}
    IN IF declaring = {} THEN [present |-> FALSE, n |-> 0]
       ELSE LET first == CHOOSE i \in declaring : \A j \in declaring : i <= j
                value == ParseInt(Strip(AfterColon(lines[first]), {" "}))
            IN [present |-> value.ok, n |-> value.n]

\* C2: the READ loop ends either because recv returned no bytes after the
\* peer closed, or with the separator buffered and a declared Content-Length
\* that is zero or absent or covered by the buffered body; a buffer whose
\* body is shorter than the declared length is parsed only after the peer
\* closed.
C2_ReadsDeclaredBody ==
    LoopEnded =>
        /\ readStop \in {"framed", "eof"}
        /\ readStop = "eof" => peerClosed
        /\ readStop = "framed" =>
              /\ HasSeparator(request_data)
              /\ \/ ~DeclaredLength(request_data).present
                 \/ DeclaredLength(request_data).n = 0
                 \/ Len(BodySection(request_data)) >= DeclaredLength(request_data).n
        /\ ( /\ DeclaredLength(request_data).present
             /\ Len(BodySection(request_data)) < DeclaredLength(request_data).n )
           => (readStop = "eof" /\ peerClosed)

\* the loop ended on a complete body of positive declared length that took
\* more than the header's arrival to be buffered
C2_Witness ==
    /\ LoopEnded
    /\ readStop = "framed"
    /\ ~peerClosed
    /\ DeclaredLength(request_data).present
    /\ DeclaredLength(request_data).n > 0
    /\ Len(BodySection(request_data)) = DeclaredLength(request_data).n

\* C3: every call of _dispatch has emitted exactly one metric record.
C3_EveryDispatchRecorded ==
    (pc \in {"send", "closing", "closed"} \/ pc = "read" \/ pc = "listening") =>
        Len(metrics) = dispatchLog.count

\* bytes of an occurs in b as a contiguous run
Embeds(b, a) ==
    \E i \in 1..(Len(b) - Len(a) + 1) : SubSeq(b, i, i + Len(a) - 1) = a

\* C5: when the matched handler raised, _dispatch returned a 500 "Internal
\* Server Error" response whose body starts with the fixed text and embeds
\* the UTF-8 bytes of the exception's description, whose Content-Length is
\* the decimal length of the body, the metric row of the request was
\* inserted, and the response is the one written to the socket.
C5_HandlerExceptionBecomes500 ==
    dispatchLog.raised =>
        /\ pc \in {"send", "closing", "closed"}
        /\ response.status_code = 500
        /\ response.reason = "Internal Server Error"
        /\ StartsWith(response.body, ErrorPrefix)
        /\ Embeds(response.body, Utf8(dispatchLog.description))
        /\ ParseInt(response.headers.ContentLength)
              = [ok |-> TRUE, n |-> Len(response.body)]
        /\ Len(metrics) = dispatchLog.rowsBefore + 1
        /\ metrics[Len(metrics)].request_count = _request_counter
        /\ pc \in {"closing", "closed"} => sockOut = <<response>>

\* the handler raised an exception whose description is not ASCII, and the
\* 500 response has been written
C5_Witness ==
    /\ dispatchLog.raised
    /\ dispatchLog.description = <<"U+9519", "!">>
    /\ pc = "closed"
    /\ sockOut = <<response>>
    /\ response.status_code = 500

-----------------------------------------------------------------------------
(* Request counter properties.                                             *)

\* C4: no two metric rows carry the same request_count, rows are inserted
\* in increasing request_count order, and when no call is in progress the
\* counter equals the number of calls made.
C4_CounterMonotonic ==
    /\ \A i, j \in DOMAIN metrics :
          i < j => metrics[i].request_count < metrics[j].request_count
    /\ (\A t \in Threads : mpc[t] = "idle") => _request_counter = mCalls

-----------------------------------------------------------------------------
(* Database lock properties.                                               *)

InDatabase(t) == dpc[t] \in {"inside", "exit"}

\* C6: at most one thread is inside a Database method body, that thread
\* holds the lock, and the lock is free whenever no thread is inside, also
\* after a statement raised.
C6_StatementsSerialized ==
    /\ Cardinality({t \in Threads : InDatabase(t)}) <= 1
    /\ \A t \in Threads : InDatabase(t) => lock = t
    /\ (\A t \in Threads : ~InDatabase(t)) => lock = NoThread

\* a thread's statement raised and its call is over, and another thread is
\* now inside
C6_Witness ==
    \E t, u \in Threads :
        /\ t # u
        /\ dpc[t] = "idle" /\ dRaised[t]
        /\ dpc[u] = "inside" /\ lock = u

-----------------------------------------------------------------------------
(* Session store properties.                                               *)

\* C7: a returned token maps to the user it was created for until destroy
\* is called for it; a token whose destroy completed, and a token never
\* issued, map to no user; a token never maps to another user;
\* get_username returns the creating user for a returned token on which
\* destroy was never called, and absent for a token already destroyed.
C7_SessionContract ==
    /\ \A k \in AllTokens :
          /\ (Returned(k) /\ ~DestroyCalled(k)) => _sessions[k] = issued[k]
          /\ k \in destroyed => _sessions[k] = None
          /\ issued[k] = None => _sessions[k] = None
          /\ _sessions[k] \in {None, issued[k]}
    /\ \A t \in Threads :
          (spc[t] = "unlock" /\ sOp[t].name = "get") =>
              /\ sRet[t] \in {None, issued[sOp[t].token]}
              /\ sOp[t].afterDestroy => sRet[t] = None
              /\ (sOp[t].token # Forged /\ ~DestroyCalled(sOp[t].token)) =>
                    sRet[t] = issued[sOp[t].token]

\* one token destroyed and looked up as absent while another token still
\* maps to its user
C7_Witness ==
    \E k1, k2 \in Tokens :
        /\ k1 # k2
        /\ k1 \in destroyed
        /\ Returned(k2) /\ ~DestroyCalled(k2)
        /\ _sessions[k2] = issued[k2] /\ issued[k2] \in Users
        /\ \E t \in Threads :
              /\ spc[t] = "unlock" /\ sOp[t].name = "get"
              /\ sOp[t].token = k1 /\ sOp[t].afterDestroy
              /\ sRet[t] = None

-----
(* Router properties.                                                      *)

\* the non-empty runs of tokens between slashes
Segments(path) == SelectSeq(Split(path, "/"), LAMBDA x : x # <<>>)

\* the '/'-delimited segments of a path as written: the root has none, and
\* an empty segment (doubled or trailing slash) counts
WrittenSegments(path) ==
    IF path = <<"/">> THEN <<>>
    ELSE IF path # <<>> /\ Head(path) = "/" THEN Tail(Split(path, "/"))
    ELSE Split(path, "/")

SegmentsFit(template_segments, path_segments) ==
    /\ Len(template_segments) = Len(path_segments)
    /\ \A i \in DOMAIN template_segments :
          \/ IsPlaceholder(template_segments[i])
          \/ template_segments[i] = path_segments[i]

PlaceholderName(segment) == SubSeq(segment, 2, Len(segment) - 1)

\* the bindings a fitting template yields, a later <name> overriding an
\* earlier one of the same name
Bindings(template_segments, path_segments) ==
    LET holes == {i \in DOMAIN template_segments : IsPlaceholder(template_segments[i])}
        names == {PlaceholderName(template_segments[i]) : i \in holes}
    IN [n \in names |->
          path_segments[CHOOSE i \in holes :
              /\ PlaceholderName(template_segments[i]) = n
              /\ \A j \in holes : PlaceholderName(template_segments[j]) = n => j <= i]]

EntryFits(entry, path, method) ==
    /\ entry.method = Upper(method)
    /\ SegmentsFit(Segments(entry.path), Segments(path))

FittingEntries(path, method) ==
    {i \in DOMAIN routes : EntryFits(routes[i], path, method)}

\* C8: resolve returns the first entry, in registration order, whose stored
\* upper-cased method equals the upper-cased request method and whose segments
\* fit the path, with that entry's bindings; it returns no match exactly when
\* no entry fits.
C8_FirstRegisteredMatchWins ==
    lastResolve.called =>
        LET fit == FittingEntries(lastResolve.path, lastResolve.method)
        IN IF fit = {} THEN lastResolve.result = NoMatch
           ELSE LET first == CHOOSE i \in fit : \A j \in fit : i <= j
                IN lastResolve.result =
                     [found |-> TRUE, handler |-> routes[first].handler,
                      params |-> Bindings(Segments(routes[first].path),
                                          Segments(lastResolve.path))]

\* /posts/new registered before /posts/<post_id>, both for GET, and
\* /posts/new resolved to the literal route with empty params
C8_Witness ==
    /\ Len(routes) = 2
    /\ routes[1].path = <<"/", "posts", "/", "new">>
    /\ routes[2].path = <<"/", "posts", "/", "<", "post_id", ">">>
    /\ routes[1].method = <<"GET">> /\ routes[2].method = <<"GET">>
    /\ lastResolve.called
    /\ lastResolve.path = <<"/", "posts", "/", "new">>
    /\ lastResolve.method = <<"get">>
    /\ lastResolve.result = [found |-> TRUE, handler |-> "h1", params |-> <<>>]

\* C9 as stated: a match implies that the template and the path, as written,
\* have the same number of '/'-delimited segments and agree segment by
\* segment, so a path with a trailing slash or an empty segment never matches
\* the template of the path without it.
C9_NoSlashNormalization ==
    (lastResolve.called /\ lastResolve.result.found) =>
        \E i \in DOMAIN routes :
            /\ routes[i].handler = lastResolve.result.handler
            /\ SegmentsFit(WrittenSegments(routes[i].path),
                           WrittenSegments(lastResolve.path))

\* C9 amended: a match implies that the template and the path have the same
\* number of non-empty segments, literal segments equal case-sensitively and
\* <name> segments bound to the path segment; empty segments are dropped, so
\* the path with an added leading or trailing slash resolves identically.
C9_MatchOnNonEmptySegments ==
    lastResolve.called =>
        /\ lastResolve.result.found =>
              \E i \in DOMAIN routes :
                 /\ routes[i].handler = lastResolve.result.handler
                 /\ SegmentsFit(Segments(routes[i].path), Segments(lastResolve.path))
                 /\ \A k \in DOMAIN Segments(routes[i].path) :
                       IsPlaceholder(Segments(routes[i].path)[k]) =>
                          /\ PlaceholderName(Segments(routes[i].path)[k])
                                \in DOMAIN lastResolve.result.params
                          /\ lastResolve.result.params[
                                 PlaceholderName(Segments(routes[i].path)[k])]
                               = Segments(lastResolve.path)[k]
        /\ Resolve(routes, lastResolve.path \o <<"/">>, lastResolve.method)
              = lastResolve.result
        /\ Resolve(routes, <<"/">> \o lastResolve.path, lastResolve.method)
              = lastResolve.result

\* /posts/new/ (trailing slash) resolved to the route /posts/new
C9_Witness ==
    /\ lastResolve.called
    /\ lastResolve.path = <<"/", "posts", "/", "new", "/">>
    /\ lastResolve.result.found
    /\ \E i \in DOMAIN routes :
          /\ routes[i].handler = lastResolve.result.handler
          /\ routes[i].path = <<"/", "posts", "/", "new">>

-----------------------------------------------------------------------------
(* Static file properties.                                                 *)

IsPrefix(a, b) == Len(a) <= Len(b) /\ SubSeq(b, 1, Len(a)) = a

\* the location a request path below /static/ denotes once "." and ".." are
\* interpreted
RequestedLocation(path) == Location(static_root \o <<"/">> \o path)

\* C10: a file is read and served only if its resolved location lies under
\* the static root, and a path that resolves outside the root is answered
\* with 403.
C10_TraversalProtected ==
    staticCall.called =>
        /\ staticCall.read # NoFile =>
              IsPrefix(Location(static_root), staticCall.read)
        /\ ~IsPrefix(Location(static_root), RequestedLocation(staticCall.path)) =>
              (staticCall.served /\ staticCall.status_code = 403)

-----------------------------------------------------------------------------
(* handlers.py, api_handlers.py, http_types.py: the responses handlers     *)
(* construct.  A headers dict is a function from header names; the names   *)
(* Content-Type, Content-Length and Set-Cookie are written ContentType,    *)
(* ContentLength and SetCookie.                                            *)

\* dict[key] = value
SetItem(dict, key, value) ==
    [k \in DOMAIN dict \cup {key} |-> IF k = key THEN value ELSE dict[k]]

\* texts a handler puts into a body: ASCII and non-ASCII characters
Texts == SeqsUpTo({"a", "U+9519"}, MaxText)

\* handlers.create_redirect
create_redirect(location) ==
    [status_code |-> 302, reason |-> "Found", body |-> <<>>,
     headers |-> [Location |-> location, ContentLength |-> <<"0">>,
                  Connection |-> "close"]]

\* HTTPResponse.set_header
set_header(resp, name, value) ==
    [resp EXCEPT !.headers = SetItem(resp.headers, name, value)]

\* HTTPResponse.set_cookie; max_age is <<>> for None
set_cookie(resp, name, value, path, max_age) ==
    LET base == <<name, "=">> \o value \o <<";", " ", "Path=", path, ";", " ", "HttpOnly">>
        cookie_value == IF max_age = <<>> THEN base
                        ELSE base \o <<";", " ", "Max-Age=">> \o max_age
        existing == IF "SetCookie" \in DOMAIN resp.headers
                    THEN resp.headers.SetCookie ELSE <<>>
    IN IF existing # <<>>
       THEN set_header(resp, "SetCookie",
                       existing \o <<"\r\n", "Set-Cookie", ":", " ">> \o cookie_value)
       ELSE set_header(resp, "SetCookie", cookie_value)

\* the tail of TemplateRenderer.render: the 200 page for the rendered text
RenderedPage(rendered) ==
    LET body == Utf8(rendered)
    IN [status_code |-> 200, reason |-> "OK", body |-> body,
        headers |-> Headers("text/html; charset=utf-8", body)]

\* TemplateRenderer._template_not_found_response
_template_not_found_response(template_name) ==
    LET message == Utf8(<<"Template", " ">> \o template_name \o <<" ", "not found">>)
    IN [status_code |-> 500, reason |-> "Internal Server Error", body |-> message,
        headers |-> Headers("text/plain; charset=utf-8", message)]

\* TemplateRenderer._missing_placeholder_response
_missing_placeholder_response(template_name, missing) ==
    LET message == Utf8(<<"U+6A21", "U+677F", " ">> \o template_name
                        \o <<" ", "U+7F3A", "U+5C11", "U+5360", "U+4F4D", "U+7B26",
                             "U+FF1A">> \o missing)
    IN [status_code |-> 500, reason |-> "Internal Server Error", body |-> message,
        headers |-> Headers("text/plain; charset=utf-8", message)]

\* BasicHandlers.not_implemented
not_implemented ==
    LET body == Utf8(<<"U+529F", "U+80FD", "U+5EFA", "U+8BBE", "U+4E2D">>)
    IN [status_code |-> 200, reason |-> "OK", body |-> body,
        headers |-> Headers("text/plain; charset=utf-8", body)]

\* ArticleHandlers._build_not_found
_build_not_found ==
    LET body == Utf8(<<"U+672A", "U+627E", "U+5230", "U+5185", "U+5BB9">>)
    IN [status_code |-> 404, reason |-> "Not Found", body |-> body,
        headers |-> Headers("text/plain; charset=utf-8", body)]

\* ArticleHandlers._build_forbidden_response
_build_forbidden_response(message) ==
    LET body == Utf8(message)
    IN [status_code |-> 403, reason |-> "Forbidden", body |-> body,
        headers |-> Headers("text/plain; charset=utf-8", body)]

\* api_handlers.HTTP_STATUS_MESSAGES.get(status, "OK")
HTTP_STATUS_MESSAGES(status) ==
    CASE status = 200 -> "OK" [] status = 201 -> "Created"
      [] status = 204 -> "No Content" [] status = 400 -> "Bad Request"
      [] status = 401 -> "Unauthorized" [] status = 403 -> "Forbidden"
      [] status = 404 -> "Not Found" [] status = 422 -> "Unprocessable Entity"
      [] status = 500 -> "Internal Server Error" [] OTHER -> "OK"

\* json.dumps(data, ensure_ascii=False) of a string without quotes,
\* backslashes or control characters
json_dumps(data) == <<"\"">> \o data \o <<"\"">>

\* api_handlers.json_response
json_response(data, status) ==
    LET body == Utf8(json_dumps(data))
    IN [status_code |-> status, reason |-> HTTP_STATUS_MESSAGES(status),
        body |-> body,
        headers |-> Headers("application/json; charset=utf-8", body)]

\* ArticleHandlers.unlock_post: password is the submitted form value,
\* verified the result of PostModel.verify_post_password
unlock_post(post_id, password, verified) ==
    IF Strip(password, {" "}) = <<>>
    THEN create_redirect(<<"/", "posts", "/", post_id, "?", "error=", "empty-password">>)
    ELSE IF ~verified
    THEN create_redirect(<<"/", "posts", "/", post_id, "?", "error=", "wrong-password">>)
    ELSE [status_code |-> 302, reason |-> "Found", body |-> <<>>,
          headers |-> [Location |-> <<"/", "posts", "/", post_id>>,
                       SetCookie |-> <<"post_access_", post_id, "=", "granted", ";",
                                       " ", "Path=", "/", ";", " ", "Max-Age=",
                                       "86400">>]]

\* the success path of UserHandlers.login, for the token create_session
\* returned
LoginRedirect(session_id) ==
    LET response0 == create_redirect(<<"/">>)
        response1 == set_cookie(response0, "session_id", <<session_id>>, "/", <<>>)
        response2 == set_header(response1, "ContentLength", <<"0">>)
    IN [response2 EXCEPT !.body = <<>>]

\* the response of UserHandlers.logout
LogoutRedirect ==
    LET response0 == create_redirect(<<"/">>)
        response1 == set_cookie(response0, "session_id", <<>>, "/", <<"0">>)
        response2 == set_header(response1, "ContentLength", <<"0">>)
    IN [response2 EXCEPT !.body = <<>>]

-----------------------------------------------------------------------------
(* Responses: every way the code constructs an HTTPResponse, one call at a *)
(* time.                                                                   *)

RedirectLocations == { <<"/">>, <<"/", "login">>, <<"/", "posts", "/", "1">> }

TemplateNames == { <<"post.html">>, <<"layout.html">> }

ApiStatuses == {200, 201, 400, 401, 403, 404, 422, 500, 418}

\* the record of one construction
Built(by, resp) == [called |-> TRUE, by |-> by, response |-> resp]

\* a handler returns create_redirect(location)
CreateRedirect ==
    /\ ~built.called
    /\ \E location \in RedirectLocations :
          built' = Built("create_redirect", create_redirect(location))
    /\ UNCHANGED besidesResp

\* a handler returns renderer.render(...): the page or one of the two 500s
RenderResponse ==
    /\ ~built.called
    /\ \/ \E rendered \in Texts : built' = Built("render", RenderedPage(rendered))
       \/ \E name \in TemplateNames :
             built' = Built("_template_not_found_response",
                            _template_not_found_response(name))
       \/ \E name \in TemplateNames, missing \in Texts :
             built' = Built("_missing_placeholder_response",
                            _missing_placeholder_response(name, missing))
    /\ UNCHANGED besidesResp

\* a handler returns one of its plain-text responses
PlainResponse ==
    /\ ~built.called
    /\ \/ built' = Built("not_implemented", not_implemented)
       \/ built' = Built("_build_not_found", _build_not_found)
       \/ \E message \in Texts :
             built' = Built("_build_forbidden_response",
                            _build_forbidden_response(message))
    /\ UNCHANGED besidesResp

\* an API handler returns json_response(data, status)
JsonResponse ==
    /\ ~built.called
    /\ \E data \in Texts, status \in ApiStatuses :
          built' = Built("json_response", json_response(data, status))
    /\ UNCHANGED besidesResp

\* POST /posts/<post_id>/unlock
UnlockPost ==
    /\ ~built.called
    /\ \E password \in {<<>>, <<" ">>, <<"pw">>}, verified \in BOOLEAN :
          built' = Built("unlock_post", unlock_post("1", password, verified))
    /\ UNCHANGED besidesResp

\* POST /login with valid credentials
Login ==
    /\ ~built.called
    /\ \E session_id \in Tokens : built' = Built("login", LoginRedirect(session_id))
    /\ UNCHANGED besidesResp

\* /logout
Logout ==
    /\ ~built.called
    /\ built' = Built("logout", LogoutRedirect)
    /\ UNCHANGED besidesResp

\* server.py: the static file, 403, 404 and 500 responses
ServerResponse ==
    /\ ~built.called
    /\ \/ \E path \in {<<"style.css">>, <<"..", "/", "server.py">>} :
             built' = Built("serve_static", serve_static(path).response)
       \/ built' = Built("_forbidden", _forbidden)
       \/ built' = Built("_not_found", _not_found)
       \/ \E exc \in ExceptionDescriptions :
             built' = Built("_dispatch", InternalServerError(exc))
    /\ UNCHANGED besidesResp

\* the response has been handed to _handle_client
ResponseReturn ==
    /\ built.called
    /\ built' = NoBuilt
    /\ UNCHANGED besidesResp

ResponseInit ==
    /\ RouterConstructed /\ StaticIdle /\ ServerIdle /\ MetricIdle /\ DbIdle
    /\ SessionIdle /\ ExtIdle

ResponseNext ==
    \/ CreateRedirect \/ RenderResponse \/ PlainResponse \/ JsonResponse
    \/ UnlockPost \/ Login \/ Logout \/ ServerResponse \/ ResponseReturn

ResponseSpec == ResponseInit /\ [][ResponseNext]_vars

\* C11: every response a handler or the server constructs carries a
\* Content-Length header equal to the length of its body and the header
\* Connection: close.
C11_ContentLengthAndClose ==
    built.called =>
        LET h == built.response.headers
        IN /\ "ContentLength" \in DOMAIN h
           /\ h.ContentLength = Str(Len(built.response.body))
           /\ "Connection" \in DOMAIN h
           /\ h.Connection = "close"

-----------------------------------------------------------------------------
(* handlers.py: TemplateRenderer.  A dict is the sequence of its           *)
(* <<key, value>> items in insertion order; "{" and "}" are tokens.        *)

Keys(dict) == {dict[i][1] : i \in DOMAIN dict}

\* dict.get(key, default)
Get(dict, key, default) ==
    IF key \in Keys(dict)
    THEN dict[CHOOSE i \in DOMAIN dict : dict[i][1] = key][2]
    ELSE default

\* dict.pop(key, None)
RECURSIVE Pop(_, _)
Pop(dict, key) ==
    IF dict = <<>> THEN <<>>
    ELSE IF Head(dict)[1] = key THEN Pop(Tail(dict), key)
    ELSE <<Head(dict)>> \o Pop(Tail(dict), key)

RECURSIVE PopAll(_, _)
PopAll(dict, keys) ==
    IF keys = <<>> THEN dict ELSE PopAll(Pop(dict, Head(keys)), Tail(keys))

\* dict.setdefault(key, value)
SetDefault(dict, key, value) ==
    IF key \in Keys(dict) THEN dict ELSE Append(dict, <<key, value>>)

\* TemplateRenderer.RAW_KEYS
RAW_KEYS ==
    << "main_content", "navbar_links", "header_actions", "extra_css_links",
      "extra_js_scripts", "message_block", "posts_html",
      "subscription_posts_html", "subscription_list_html", "comment_list_html",
      "comment_form_html", "auth_action", "authored_posts_html",
      "favorite_posts_html", "subscriptions_html", "contacts_html",
      "conversation_html", "permission_public_selected",
      "permission_vip_selected", "permission_password_selected",
      "permission_private_selected", "allow_comments_checked",
      "is_encrypted_checked", "profile_actions_html", "create_button_html",
      "delete_button_html", "post_content_html", "author_action_items_html",
      "post_feedback_html", "bio_html", "profile_feedback_html",
      "profile_edit_section_html" >>

\* for raw_key in RAW_KEYS: dict.setdefault(raw_key, "").  RAW_KEYS is a
\* set in the code; every iteration order adds the same items with the
\* same empty value.
SetDefaultAll(dict, keys) ==
    LET absent == SelectSeq(keys, LAMBDA k : k \notin Keys(dict))
    IN dict \o [i \in 1..Len(absent) |-> <<absent[i], <<>>>>]

\* the keys render removes from the content context
LayoutOnlyKeys ==
    << "_layout", "navbar_links", "header_actions", "extra_css_links",
       "extra_js_scripts", "body_class", "page_description", "current_year" >>

\* str.replace(old, new): every non-overlapping occurrence, left to right
RECURSIVE Replace(_, _, _)
Replace(s, old, new) ==
    IF Len(s) < Len(old) THEN s
    ELSE IF StartsWith(s, old)
    THEN new \o Replace(SubSeq(s, Len(old) + 1, Len(s)), old, new)
    ELSE <<Head(s)>> \o Replace(Tail(s), old, new)

\* the replaces of _format_template for the items lo..hi of the context,
\* in order: items lo..mid first, then items mid+1..hi on their result
RECURSIVE FormatItems(_, _, _, _)
FormatItems(template, context, lo, hi) ==
    IF lo > hi THEN template
    ELSE IF lo = hi
    THEN Replace(template, <<"{", context[lo][1], "}">>, context[lo][2])
    ELSE LET mid == (lo + hi) \div 2
         IN CHOOSE result \in
                {FormatItems(first, context, mid + 1, hi) :
                    first \in {FormatItems(template, context, lo, mid)}} : TRUE

\* TemplateRenderer._format_template: one replace per context item, each
\* applied to the result of the one before
_format_template(template, context) == FormatItems(template, context, 1, Len(context))

\* the template files under template_root
TemplateFiles ==
    [name \in {"post.html", "about.html", "layout.html", "alt.html",
               "index.html", "profile.html", "subscriptions.html"} |->
        CASE name = "post.html" ->
               <<"{", "title", "}", ":", "{", "post_content_html", "}",
                 "{", "comment_list_html", "}">>
          [] name = "about.html" ->
               <<"{", "author", "}", "{", "title", "}">>
          [] name = "layout.html" ->
               <<"{", "page_title", "}", "{", "page_description", "}", "|",
                 "{", "main_content", "}", "|", "{", "current_year", "}">>
          [] name = "alt.html" ->
               <<"{", "sidebar", "}", "{", "main_content", "}">>
          [] name = "index.html" ->
               <<"{", "posts_html", "}", "{", "subscription_posts_html", "}">>
          [] name = "profile.html" ->
               <<"{", "authored_posts_html", "}", "{", "favorite_posts_html", "}">>
          [] name = "subscriptions.html" ->
               <<"{", "subscription_posts_html", "}">>]

\* str(datetime.utcnow().year)
CurrentYear == <<"2026">>

\* the layout context render builds, in the order of the dict literal
LayoutContext(context, main_content) ==
    << <<"page_title", Get(context, "page_title", <<"NeoBlog">>)>>,
       <<"page_description", Get(context, "page_description", <<>>)>>,
       <<"navbar_links", Get(context, "navbar_links", <<>>)>>,
       <<"header_actions", Get(context, "header_actions", <<>>)>>,
       <<"main_content", main_content>>,
       <<"extra_css_links", Get(context, "extra_css_links", <<>>)>>,
       <<"extra_js_scripts", Get(context, "extra_js_scripts", <<>>)>>,
       <<"body_class", Get(context, "body_class", <<>>)>>,
       <<"current_year", Get(context, "current_year", CurrentYear)>> >>

\* the content context render builds
ContentContext(context) == SetDefaultAll(PopAll(context, LayoutOnlyKeys), RAW_KEYS)

\* TemplateRenderer.render.  _format_template has no statement that raises
\* KeyError, so neither except KeyError branch is taken.
render(template_name, context) ==
    LET layout_name == Get(context, "_layout", <<"layout.html">>)
        found(name) == Len(name) = 1 /\ name[1] \in DOMAIN TemplateFiles
    IN IF ~found(template_name)
       THEN [main_content |-> <<>>, rendered |-> <<>>,
             response |-> _template_not_found_response(template_name)]
       ELSE IF ~found(layout_name)
       THEN [main_content |-> <<>>, rendered |-> <<>>,
             response |-> _template_not_found_response(layout_name)]
       ELSE LET main_content ==
                    _format_template(TemplateFiles[template_name[1]],
                                     ContentContext(context))
                rendered ==
                    _format_template(TemplateFiles[layout_name[1]],
                                     LayoutContext(context, main_content))
            IN [main_content |-> main_content, rendered |-> rendered,
                response |-> RenderedPage(rendered)]

-----------------------------------------------------------------------------
(* Rendering: one render call at a time, for every template and context.   *)

ContextKeys == {"title", "page_title", "_layout"}

ContextValues ==
    { <<>>, <<"x">>, <<"alt.html">>, <<"{", "page_title", "}">>,
      <<"{", "current_year", "}">> }

\* the contexts handlers pass: up to MaxKeys items with distinct keys
Contexts ==
    {c \in SeqsUpTo(ContextKeys \X ContextValues, MaxKeys) :
        \A i, j \in DOMAIN c : c[i][1] = c[j][1] => i = j}

RenderTemplates == { <<"post.html">>, <<"about.html">>, <<"gone.html">> }

RenderCall ==
    /\ ~rendering.called
    /\ \E template_name \in RenderTemplates, context \in Contexts :
          \E r \in {render(template_name, context)} :
             rendering' = [called |-> TRUE, template_name |-> template_name,
                           context |-> context, main_content |-> r.main_content,
                           rendered |-> r.rendered, response |-> r.response]
    /\ UNCHANGED besidesRender

RenderReturn ==
    /\ rendering.called
    /\ rendering' = NoRendering
    /\ UNCHANGED besidesRender

RenderInit ==
    /\ RouterConstructed /\ StaticIdle /\ ServerIdle /\ MetricIdle /\ DbIdle
    /\ SessionIdle /\ ExtIdle

RenderNext == RenderCall \/ RenderReturn

RenderSpec == RenderInit /\ [][RenderNext]_vars

\* the names of the placeholders of a template text
Placeholders(template) ==
    {template[i + 1] : i \in {j \in 1..(Len(template) - 2) :
                                 template[j] = "{" /\ template[j + 2] = "}"}}

\* s occurs in text as a run of consecutive tokens
Contains(text, s) ==
    \E i \in 0..(Len(text) - Len(s)) : SubSeq(text, i + 1, i + Len(s)) = s

LayoutName == Get(rendering.context, "_layout", <<"layout.html">>)

\* the last call found both template files
BothLoaded ==
    /\ rendering.called
    /\ Len(rendering.template_name) = 1
    /\ rendering.template_name[1] \in DOMAIN TemplateFiles
    /\ Len(LayoutName) = 1
    /\ LayoutName[1] \in DOMAIN TemplateFiles

\* C12: when the content template or the layout template has a placeholder
\* whose name is no key of the context of its stage, render returns a 500
\* response whose body names the template and the missing key.
C12_MissingPlaceholderIs500 ==
    BothLoaded =>
        LET main == TemplateFiles[rendering.template_name[1]]
            layout == TemplateFiles[LayoutName[1]]
            missingMain == Placeholders(main) \ Keys(ContentContext(rendering.context))
            missingLayout ==
                Placeholders(layout) \ Keys(LayoutContext(rendering.context, <<>>))
        IN /\ missingMain # {} =>
                \E k \in missingMain :
                    rendering.response =
                        _missing_placeholder_response(rendering.template_name, <<k>>)
           /\ (missingMain = {} /\ missingLayout # {}) =>
                \E k \in missingLayout :
                    rendering.response =
                        _missing_placeholder_response(LayoutName, <<k>>)

\* one left-to-right pass over the template that replaces each placeholder
\* by its context value and never looks inside what it has inserted
RECURSIVE Substitute(_, _)
Substitute(template, context) ==
    IF template = <<>> THEN <<>>
    ELSE IF /\ Len(template) >= 3 /\ template[1] = "{" /\ template[3] = "}"
            /\ template[2] \in Keys(context)
    THEN Get(context, template[2], <<>>)
         \o Substitute(SubSeq(template, 4, Len(template)), context)
    ELSE <<Head(template)>> \o Substitute(Tail(template), context)

\* C13: the rendered page is the layout with each placeholder replaced by
\* its context value exactly as supplied, main_content being the content
\* template with each placeholder replaced by its value exactly as supplied;
\* a {key} token inside a substituted value is not replaced.
C13_ValuesInsertedVerbatim ==
    (BothLoaded /\ rendering.response.status_code = 200) =>
        LET main == TemplateFiles[rendering.template_name[1]]
            layout == TemplateFiles[LayoutName[1]]
            content == Substitute(main, ContentContext(rendering.context))
        IN /\ rendering.main_content = content
           /\ rendering.rendered =
                 Substitute(layout, LayoutContext(rendering.context, content))

-----------------------------------------------------------------------------
(* handlers.py: _RichTextSanitizer.  Markup is a token sequence: "<", ">",  *)
(* "/", "=", the double quote, " ", ";", ":" and "&" are tokens, a         *)
(* character reference is "&" followed by its tail ("lt;", "amp;", ...),   *)
(* names and words are runs, and a URL scheme is one run ("http://",       *)
(* "javascript:").  Tag and attribute names are written in lower case and  *)
(* attribute values in double quotes.                                      *)

VOID_TAGS == {"br", "img", "hr"}

_ALLOWED_RICH_TEXT_TAGS ==
    { "p", "br", "strong", "em", "u", "s", "blockquote", "code", "pre", "ul",
      "ol", "li", "h1", "h2", "h3", "h4", "h5", "h6", "span", "a", "img",
      "table", "thead", "tbody", "tr", "th", "td", "hr", "figure",
      "figcaption", "sup", "sub", "div" }

\* _ALLOWED_RICH_TEXT_ATTRS.get(tag, set())
_ALLOWED_RICH_TEXT_ATTRS(tag) ==
    CASE tag = "*" -> {"class", "style"}
      [] tag = "a" -> {"href", "target", "rel", "title"}
      [] tag = "img" -> {"src", "alt", "title"}
      [] tag \in {"table", "thead", "tbody", "tr", "code", "pre", "figure"} -> {"class"}
      [] tag \in {"th", "td"} -> {"colspan", "rowspan", "class", "style"}
      [] tag \in {"span", "div", "figcaption"} -> {"class", "style"}
      [] OTHER -> {}

_ALLOWED_RICH_TEXT_STYLES ==
    { "color", "background-color", "font-size", "font-weight", "text-align",
      "text-decoration", "font-style", "font-family", "line-height",
      "letter-spacing", "margin", "margin-left", "margin-right", "margin-top",
      "margin-bottom" }

\* the characters a reference tail stands for
EntityTails == {"lt;", "gt;", "amp;", "quot;", "#x27;"}

EntityChar(tail) ==
    CASE tail = "lt;" -> "<" [] tail = "gt;" -> ">" [] tail = "amp;" -> "&"
      [] tail = "quot;" -> "\"" [] OTHER -> "'"

\* html.unescape: one pass, a converted "&" is not read again
RECURSIVE Unescape(_)
Unescape(text) ==
    IF text = <<>> THEN <<>>
    ELSE IF Head(text) = "&" /\ Len(text) >= 2 /\ text[2] \in EntityTails
    THEN <<EntityChar(text[2])>> \o Unescape(SubSeq(text, 3, Len(text)))
    ELSE <<Head(text)>> \o Unescape(Tail(text))

\* html.escape(s, quote=True) of one character
EscapeChar(c) ==
    CASE c = "&" -> <<"&", "amp;">> [] c = "<" -> <<"&", "lt;">>
      [] c = ">" -> <<"&", "gt;">> [] c = "\"" -> <<"&", "quot;">>
      [] c = "'" -> <<"&", "#x27;">> [] OTHER -> <<c>>

\* html.escape(s, quote=True)
RECURSIVE Escape(_)
Escape(text) ==
    IF text = <<>> THEN <<>> ELSE EscapeChar(Head(text)) \o Escape(Tail(text))

\* the runs that match [A-Za-z0-9_-]+
WordRuns == {"x", "note", "lead", "script", "red"}

\* the runs that contain a colon
ColonRuns == {":", "javascript:", "http://", "https://", "mailto:", "tel:", "data:image/"}

\* _RichTextSanitizer._sanitize_classes
_sanitize_classes(value) ==
    LET tokens == NonEmpty(Split(value, " "))
        valid == SelectSeq(tokens, LAMBDA token : \A i \in DOMAIN token : token[i] \in WordRuns)
    IN Join(valid, " ")

\* one item of the style value: <<>> when the loop continues without it
StyleItem(item) ==
    LET colons == {i \in DOMAIN item : item[i] \in ColonRuns}
    IN IF colons = {} THEN <<>>
       ELSE LET c == CHOOSE i \in colons : \A j \in colons : i <= j
                prop_name == Strip(SubSeq(item, 1, c - 1), {" "})
                sanitized_val == Strip(SubSeq(item, c + 1, Len(item)), {" "})
            IN IF item[c] # ":" \/ Len(prop_name) # 1
                  \/ prop_name[1] \notin _ALLOWED_RICH_TEXT_STYLES
               THEN <<>>
               ELSE IF \E i \in DOMAIN sanitized_val :
                          sanitized_val[i] \in {"javascript:", "expression", "url("}
               THEN <<>>
               ELSE <<prop_name[1], ":", " ">> \o sanitized_val

\* "; ".join(cleaned)
RECURSIVE JoinStyle(_)
JoinStyle(cleaned) ==
    IF cleaned = <<>> THEN <<>>
    ELSE IF Len(cleaned) = 1 THEN Head(cleaned)
    ELSE Head(cleaned) \o <<";", " ">> \o JoinStyle(Tail(cleaned))

\* _RichTextSanitizer._sanitize_style
_sanitize_style(value) ==
    LET style_items == Split(value, ";")
        cleaned == [i \in DOMAIN style_items |-> StyleItem(style_items[i])]
    IN JoinStyle(NonEmpty(cleaned))

\* _RichTextSanitizer._sanitize_url
_sanitize_url(value) ==
    LET trimmed == Strip(value, {" "})
    IN IF trimmed # <<>>
          /\ Head(trimmed) \in {"http://", "https://", "mailto:", "tel:", "/", "#"}
       THEN trimmed ELSE <<>>

\* _RichTextSanitizer._sanitize_src
_sanitize_src(value) ==
    LET trimmed == Strip(value, {" "})
    IN IF trimmed # <<>> /\ Head(trimmed) \in {"http://", "https://", "data:image/"}
       THEN trimmed ELSE <<>>

\* _RichTextSanitizer._sanitize_rel
_sanitize_rel(value) ==
    LET tokens == NonEmpty(Split(value, " "))
        result == SelectSeq(tokens, LAMBDA token :
                      token \in {<<"noopener">>, <<"noreferrer">>, <<"nofollow">>,
                                 <<"external">>})
    IN Join(result, " ")

\* _RichTextSanitizer._escape_attr
_escape_attr(value) == Escape(value)

\* one iteration of the loop of _sanitize_attributes: the sanitized value
\* and whether the attribute is kept
SanitizedAttr(allowed, name, value) ==
    IF name \notin allowed \/ value = <<"None">> THEN [keep |-> FALSE, value |-> <<>>]
    ELSE IF name = "class"
    THEN [keep |-> _sanitize_classes(value) # <<>>, value |-> _sanitize_classes(value)]
    ELSE IF name = "style"
    THEN [keep |-> _sanitize_style(value) # <<>>, value |-> _sanitize_style(value)]
    ELSE IF name = "href"
    THEN [keep |-> _sanitize_url(value) # <<>>, value |-> _sanitize_url(value)]
    ELSE IF name = "src"
    THEN [keep |-> _sanitize_src(value) # <<>>, value |-> _sanitize_src(value)]
    ELSE IF name = "target"
    THEN [keep |-> Strip(value, {" "}) \in {<<"_blank">>, <<"_self">>, <<"_parent">>,
                                            <<"_top">>},
          value |-> Strip(value, {" "})]
    ELSE IF name = "rel"
    THEN [keep |-> _sanitize_rel(value) # <<>>, value |-> _sanitize_rel(value)]
    ELSE [keep |-> TRUE, value |-> _escape_attr(value)]

RECURSIVE AttributeText(_, _)
AttributeText(allowed, attrs) ==
    IF attrs = <<>> THEN <<>>
    ELSE LET a == SanitizedAttr(allowed, Head(attrs)[1], Head(attrs)[2])
         IN (IF a.keep
             THEN <<" ", Head(attrs)[1], "=", "\"">> \o a.value \o <<"\"">>
             ELSE <<>>)
            \o AttributeText(allowed, Tail(attrs))

\* _RichTextSanitizer._sanitize_attributes
_sanitize_attributes(tag, attrs) ==
    LET allowed == _ALLOWED_RICH_TEXT_ATTRS(tag) \cup _ALLOWED_RICH_TEXT_ATTRS("*")
        kept(name) == \E i \in DOMAIN attrs :
                         /\ attrs[i][1] = name
                         /\ SanitizedAttr(allowed, name, attrs[i][2]).keep
        target_blank == \E i \in DOMAIN attrs :
                           /\ attrs[i][1] = "target"
                           /\ SanitizedAttr(allowed, "target", attrs[i][2]).keep
                           /\ SanitizedAttr(allowed, "target", attrs[i][2]).value
                                 = <<"_blank">>
        rel_present == kept("rel")
    IN AttributeText(allowed, attrs)
       \o (IF tag = "a" /\ target_blank /\ ~rel_present
           THEN <<" ", "rel", "=", "\"", "noopener", " ", "noreferrer", "\"">>
           ELSE <<>>)

\* handle_starttag and handle_startendtag
handle_starttag(tag, attrs) ==
    IF tag \notin _ALLOWED_RICH_TEXT_TAGS THEN <<>>
    ELSE <<"<", tag>> \o _sanitize_attributes(tag, attrs) \o <<">">>

handle_endtag(tag) ==
    IF tag \notin _ALLOWED_RICH_TEXT_TAGS \/ tag \in VOID_TAGS THEN <<>>
    ELSE <<"<", "/", tag, ">">>

handle_data(data) == Escape(data)

-----------------------------------------------------------------------------
(* html.parser.HTMLParser(convert_charrefs=True) as the sanitizer uses it: *)
(* feed and close turn the text into start tags, end tags and data.        *)
(* Comments, declarations and processing instructions are not modelled.    *)

\* runs that can be a tag or an attribute name
NameRuns ==
    _ALLOWED_RICH_TEXT_TAGS \cup WordRuns
    \cup {"script", "style", "iframe", "href", "src", "title", "alt", "class",
          "target", "rel", "onerror", "onmouseover"}

\* the runs that start with a letter: "<" followed by one of them opens a tag
LetterRuns == NameRuns \cup (ColonRuns \ {":"}) \cup {"lt;", "amp;", "gt;", "quot;"}

CDATA_CONTENT_ELEMENTS == {"script", "style"}

\* number of double quotes among toks[from..to]
Quotes(toks, from, to) == Cardinality({k \in from..to : toks[k] = "\""})

\* for a "<" at i: the index of the ">" that ends the tag, 0 when the text
\* at i is not a tag
TagEnd(toks, i) ==
    IF i + 1 > Len(toks) THEN 0
    ELSE IF toks[i + 1] = "/"
    THEN IF i + 3 <= Len(toks) /\ toks[i + 2] \in NameRuns /\ toks[i + 3] = ">"
         THEN i + 3 ELSE 0
    ELSE IF toks[i + 1] \notin LetterRuns THEN 0
    ELSE LET ends == {k \in (i + 2)..Len(toks) :
                         toks[k] = ">" /\ Quotes(toks, i + 2, k) % 2 = 0}
         IN IF ends = {} THEN 0 ELSE CHOOSE k \in ends : \A j \in ends : k <= j

IsTagAt(toks, i) == toks[i] = "<" /\ TagEnd(toks, i) > 0

\* the index of the first tag at or after i, Len(toks) + 1 when there is none
NextTag(toks, i) ==
    LET starts == {k \in i..Len(toks) : IsTagAt(toks, k)}
    IN IF starts = {} THEN Len(toks) + 1
       ELSE CHOOSE k \in starts : \A j \in starts : k <= j

\* tagfind_tolerant: the name of the start tag at i runs up to the first
\* blank, "/" or ">"; NameStop is the index of that token
NameStop(toks, i) ==
    LET stops == {k \in (i + 2)..Len(toks) : toks[k] \in {" ", "/", ">"}}
    IN CHOOSE k \in stops : \A j \in stops : k <= j

RECURSIVE Joined(_)
Joined(runs) == IF runs = <<>> THEN "" ELSE Head(runs) \o Joined(Tail(runs))

TagName(toks, i) == Joined(SubSeq(toks, i + 1, NameStop(toks, i) - 1))

\* index of the first token of seg at or after from that is in stops,
\* Len(seg) + 1 when there is none
FirstOf(seg, from, stops) ==
    LET hits == {k \in from..Len(seg) : seg[k] \in stops}
    IN IF hits = {} THEN Len(seg) + 1
       ELSE CHOOSE k \in hits : \A j \in hits : k <= j

\* the (name, value) pairs of a start tag; the value of a bare attribute is
\* None, a quoted or unquoted value is unescaped
RECURSIVE ParseAttrs(_)
ParseAttrs(seg0) ==
    LET seg == LStrip(seg0, {" ", "/"})
    IN IF seg = <<>> THEN <<>>
       ELSE IF Len(seg) >= 3 /\ seg[2] = "=" /\ seg[3] = "\""
       THEN LET close == FirstOf(seg, 4, {"\""})
            IN << <<seg[1], Unescape(SubSeq(seg, 4, close - 1))>> >>
               \o ParseAttrs(SubSeq(seg, close + 1, Len(seg)))
       ELSE IF Len(seg) >= 3 /\ seg[2] = "="
       THEN LET stop == FirstOf(seg, 3, {" "})
            IN << <<seg[1], Unescape(SubSeq(seg, 3, stop - 1))>> >>
               \o ParseAttrs(SubSeq(seg, stop, Len(seg)))
       ELSE << <<seg[1], <<"None">>>> >> \o ParseAttrs(Tail(seg))

\* index of the "<" of the end tag that closes a script or style element
\* opened before from, Len(toks) + 1 when the element is not closed
CloseOf(toks, from, tag) ==
    LET hits == {k \in from..(Len(toks) - 3) :
                    /\ toks[k] = "<" /\ toks[k + 1] = "/"
                    /\ toks[k + 2] = tag /\ toks[k + 3] = ">"}
    IN IF hits = {} THEN Len(toks) + 1
       ELSE CHOOSE k \in hits : \A j \in hits : k <= j

\* what the sanitizer appends to its output for the text from index i on:
\* HTMLParser.goahead calling handle_data, handle_starttag and handle_endtag.
\* The text of a script or style element is data that is not unescaped; when
\* the element is never closed, close() drops that text.
RECURSIVE Feed(_, _)
Feed(toks, i) ==
    IF i > Len(toks) THEN <<>>
    ELSE LET k == NextTag(toks, i) IN
         IF k > i
         THEN handle_data(Unescape(SubSeq(toks, i, k - 1))) \o Feed(toks, k)
         ELSE LET e == TagEnd(toks, i) IN
              IF toks[i + 1] = "/"
              THEN handle_endtag(toks[i + 2]) \o Feed(toks, e + 1)
              ELSE LET tag == TagName(toks, i)
                       out == handle_starttag(tag,
                                  ParseAttrs(SubSeq(toks, NameStop(toks, i), e - 1)))
                   IN IF tag \in CDATA_CONTENT_ELEMENTS
                      THEN LET c == CloseOf(toks, e + 1, tag)
                           IN IF c > Len(toks) THEN out
                              ELSE out \o handle_data(SubSeq(toks, e + 1, c - 1))
                                       \o Feed(toks, c)
                      ELSE out \o Feed(toks, e + 1)

\* ArticleHandlers._sanitize_rich_text
_sanitize_rich_text(content) == Feed(content, 1)

-----------------------------------------------------------------------------
(* Sanitizer: a text is sanitized, and its output is sanitized again (a    *)
(* stored post is edited and saved once more).                             *)

StartTag(tag, name, value) ==
    <<"<", tag, " ", name, "=", "\"">> \o value \o <<"\"", ">">>

\* the pieces an input is put together from
Snippets ==
    { <<"x">>, <<"javascript:">>, <<"onerror", "=">>, <<"<">>,
      <<"&", "lt;", "script">>, <<"&", "amp;", "lt;">>,
      <<"<", "script", ">">>, <<"<", "/", "script", ">">>,
      <<"<", "iframe", ">">>, <<"<", "p", ">">>, <<"<", "/", "p", ">">>,
      <<"<", "br", "/", ">">>,
      StartTag("a", "href", <<"http://", "x">>),
      StartTag("a", "href", <<"javascript:", "x">>),
      StartTag("a", "href", <<"http://", "<", "script">>),
      StartTag("a", "href", <<"http://", "&", "amp;", "lt;">>),
      StartTag("a", "title", <<"<", "script">>),
      StartTag("a", "target", <<"_blank">>),
      StartTag("img", "src", <<"http://", "?", "onerror", "=">>),
      StartTag("img", "onerror", <<"x">>),
      StartTag("p", "class", <<"note", " ", "<", " ", "lead">>),
      StartTag("p", "style", <<"color", ":", " ", "red", ";", "top", ":", "x">>),
      StartTag("p", "style", <<"color", ":", "javascript:", "x">>) }

RECURSIVE Concat(_)
Concat(pieces) == IF pieces = <<>> THEN <<>> ELSE Head(pieces) \o Concat(Tail(pieces))

Documents == {Concat(d) : d \in SeqsUpTo(Snippets, MaxSnippets)}

\* _sanitize_rich_text(content) for a submitted text
Sanitize ==
    /\ sanPass = 0
    /\ \E content \in Documents :
          \E out \in {_sanitize_rich_text(content)} :
             /\ sanInput' = content
             /\ sanFirst' = out
             /\ sanOutput' = out
    /\ sanPass' = 1
    /\ UNCHANGED besidesSan

\* _sanitize_rich_text applied to its own output
SanitizeAgain ==
    /\ sanPass = 1
    /\ sanOutput' = _sanitize_rich_text(sanOutput)
    /\ sanPass' = 2
    /\ UNCHANGED <<sanInput, sanFirst, besidesSan>>

SanitizerReturn ==
    /\ sanPass = 2
    /\ sanPass' = 0 /\ sanInput' = <<>> /\ sanFirst' = <<>> /\ sanOutput' = <<>>
    /\ UNCHANGED besidesSan

SanitizerInit ==
    /\ RouterConstructed /\ StaticIdle /\ ServerIdle /\ MetricIdle /\ DbIdle
    /\ SessionIdle /\ ExtIdle

SanitizerNext == Sanitize \/ SanitizeAgain \/ SanitizerReturn

SanitizerSpec == SanitizerInit /\ [][SanitizerNext]_vars

\* C14: the output of the sanitizer contains none of '<script', '<iframe',
\* 'javascript:' and 'onerror='.
C14_NoDangerousSubstring ==
    sanPass >= 1 =>
        /\ ~Contains(sanOutput, <<"<", "script">>)
        /\ ~Contains(sanOutput, <<"<", "iframe">>)
        /\ ~Contains(sanOutput, <<"javascript:">>)
        /\ ~Contains(sanOutput, <<"onerror", "=">>)

\* C15: sanitizing the output of the sanitizer gives that output again.
C15_SanitizerIdempotent == sanPass = 2 => sanOutput = sanFirst

-----------------------------------------------------------------------------
(* http_types.py: HTTPRequest, its headers and its derived views.  A dict  *)
(* is the set of its (key, value) items.                                   *)

\* dict[key] = value
Put(dict, key, value) == {item \in dict : item[1] # key} \cup {<<key, value>>}

\* dict.get(key, default)
Lookup(dict, key, default) ==
    IF \E item \in dict : item[1] = key
    THEN (CHOOSE item \in dict : item[1] = key)[2] ELSE default

\* the tokens of a text
Range(s) == {s[i] : i \in DOMAIN s}

\* str.find(t) + 1 for a one-token t: 0 when s has none
IndexOf(s, t) ==
    LET hits == {i \in DOMAIN s : s[i] = t}
    IN IF hits = {} THEN 0 ELSE CHOOSE i \in hits : \A j \in hits : i <= j

Blank == {" "}

\* HTTPRequest._parse: the loop over header_lines[1:]
RECURSIVE ParseHeaderLines(_, _)
ParseHeaderLines(lines, headers) ==
    IF lines = <<>> THEN headers
    ELSE LET line == Head(lines)
             c == IndexOf(line, ":")
         IN IF c = 0 THEN ParseHeaderLines(Tail(lines), headers)
            ELSE ParseHeaderLines(Tail(lines),
                     Put(headers, Lower(Strip(SubSeq(line, 1, c - 1), Blank)),
                         Strip(SubSeq(line, c + 1, Len(line)), Blank)))

\* HTTPRequest.__init__: the parsed request with every cache empty
NewRequest(raw_data) ==
    LET parsed == HTTPRequest(raw_data)
        header_lines == Split(HeaderSection(raw_data), CRLF)
    IN [NoRequest EXCEPT !.constructed = TRUE,
                         !.method = parsed.method,
                         !.path = parsed.path,
                         !.query = parsed.query,
                         !.headers = ParseHeaderLines(Tail(header_lines), {}),
                         !.body = parsed.body]

\* HTTPRequest.get_header
get_header(request, name, default) == Lookup(request.headers, Lower(name), default)

\* urllib.parse.unquote_plus on the model's tokens
Unquote(s) ==
    [i \in DOMAIN s |-> IF s[i] = "+" THEN " " ELSE IF s[i] = "%41" THEN "A" ELSE s[i]]

\* one name=value field of parse_qs; a field without "=" has a blank value
Field(name_value) ==
    LET e == IndexOf(name_value, "=")
    IN IF e = 0 THEN <<Unquote(name_value), <<>>>>
       ELSE <<Unquote(SubSeq(name_value, 1, e - 1)),
              Unquote(SubSeq(name_value, e + 1, Len(name_value)))>>

\* the loop that keeps values[0] of every key of parse_qs
RECURSIVE FirstValues(_, _)
FirstValues(fields, simplified) ==
    IF fields = <<>> THEN simplified
    ELSE LET f == Field(Head(fields))
         IN FirstValues(Tail(fields),
                IF \E item \in simplified : item[1] = f[1] THEN simplified
                ELSE simplified \cup {f})

\* parse_qs(qs, keep_blank_values=True) simplified to the first value of a key
SimplifiedQs(qs) == FirstValues(NonEmpty(Split(qs, "&")), {})

\* HTTPRequest.get_cookies: the loop over the parts of the Cookie header
RECURSIVE CookiePairs(_, _)
CookiePairs(parts, cookies) ==
    IF parts = <<>> THEN cookies
    ELSE LET part == Head(parts)
             e == IndexOf(part, "=")
         IN IF e = 0 THEN CookiePairs(Tail(parts), cookies)
            ELSE CookiePairs(Tail(parts),
                     Put(cookies, Strip(SubSeq(part, 1, e - 1), Blank),
                         Strip(SubSeq(part, e + 1, Len(part)), Blank)))

\* HTTPRequest.get_cookies: the value computed for the cache
Cookies(request) ==
    LET cookie_header == get_header(request, <<"cookie">>, <<>>)
    IN IF cookie_header = <<>> THEN {}
       ELSE CookiePairs(Split(cookie_header, ";"), {})

\* the codecs Python finds among the names the model uses
KnownCodecs == {<<"utf-8">>, <<"latin-1">>}

DecodeByte(b, charset) ==
    IF b # "xFF" THEN b
    ELSE IF charset = <<"latin-1">> THEN "U+00FF" ELSE "U+FFFD"

\* bytes.decode(charset, errors="replace"): ok is FALSE where Python raises
\* LookupError; an empty bytes object is decoded without a codec lookup
Decode(bytes, charset) ==
    IF bytes = <<>> THEN [ok |-> TRUE, text |-> <<>>]
    ELSE IF charset \notin KnownCodecs THEN [ok |-> FALSE, text |-> <<>>]
    ELSE [ok |-> TRUE,
          text |-> [i \in DOMAIN bytes |-> DecodeByte(bytes[i], charset)]]

\* bytes.split(sep) for a separator of several tokens
RECURSIVE SplitOn(_, _, _)
SplitOn(s, sep, cur) ==
    IF s = <<>> THEN <<cur>>
    ELSE IF StartsWith(s, sep)
    THEN <<cur>> \o SplitOn(SubSeq(s, Len(sep) + 1, Len(s)), sep, <<>>)
    ELSE SplitOn(Tail(s), sep, Append(cur, Head(s)))

\* _parse_multipart_form: the loop that finds the boundary parameter
RECURSIVE BoundaryToken(_)
BoundaryToken(parameters) ==
    IF parameters = <<>> THEN <<>>
    ELSE LET parameter == Strip(Head(parameters), Blank)
         IN IF StartsWith(parameter, <<"boundary=">>)
            THEN LET token == Strip(Tail(parameter), Blank)
                 IN IF token # <<>> /\ Head(token) = "\"" /\ token[Len(token)] = "\""
                    THEN SubSeq(token, 2, Len(token) - 1) ELSE token
            ELSE BoundaryToken(Tail(parameters))

\* the segments between boundaries that carry no part
SkippedSegments ==
    {<<>>, <<"--", CRLF>>, <<"--">>, <<CRLF, "--">>, <<"--", CRLF, "--">>}

\* a segment without its leading and its trailing line break
Trimmed(segment) ==
    LET a == IF StartsWith(segment, <<CRLF>>) THEN Tail(segment) ELSE segment
    IN IF a # <<>> /\ a[Len(a)] = CRLF THEN SubSeq(a, 1, Len(a) - 1) ELSE a

\* the last header line of a part that starts with prefix, "" when none does
PartHeader(headers, prefix) ==
    LET hits == {i \in DOMAIN headers : StartsWith(Lower(headers[i]), <<prefix>>)}
    IN IF hits = {} THEN <<>>
       ELSE headers[CHOOSE i \in hits : \A j \in hits : j <= i]

\* the value of the last key=... parameter of a Content-Disposition header,
\* without its quotes: <<>> when there is none, <<value>> otherwise
DispositionParam(parts, key) ==
    LET stripped == [i \in DOMAIN parts |-> Strip(parts[i], Blank)]
        hits == {i \in DOMAIN parts : StartsWith(stripped[i], <<key>>)}
    IN IF hits = {} THEN <<>>
       ELSE <<Strip(Tail(stripped[CHOOSE i \in hits : \A j \in hits : j <= i]),
                    {"\""})>>

\* the content type stored with an uploaded file
FileContentType(content_type_header) ==
    LET c == IndexOf(content_type_header, ":")
        ctype_value == IF c = 0 THEN <<>>
                       ELSE Strip(SubSeq(content_type_header, c + 1,
                                         Len(content_type_header)), Blank)
    IN IF ctype_value = <<>> THEN <<"application/octet-stream">> ELSE ctype_value

\* _parse_multipart_form: the loop over the segments of the body
RECURSIVE Parts(_, _, _)
Parts(segments, form_values, file_values) ==
    IF segments = <<>>
    THEN [raised |-> FALSE, form |-> <<form_values>>, files |-> <<file_values>>]
    ELSE LET rest == Tail(segments)
             segment == Trimmed(Head(segments))
             headers == Split(HeaderSection(segment), CRLF)
             disposition_header == PartHeader(headers, "content-disposition")
             content_type_header == PartHeader(headers, "content-type")
             parts == Split(disposition_header, ";")
             named == DispositionParam(parts, "name=")
             filename == DispositionParam(parts, "filename=")
             content_bytes == BodySection(segment)
         IN IF \/ Head(segments) \in SkippedSegments
               \/ ~HasSeparator(segment)
               \/ disposition_header = <<>>
               \/ named \in {<<>>, <<<<>>>>}
            THEN Parts(rest, form_values, file_values)
            ELSE IF filename \notin {<<>>, <<<<>>>>}
            THEN Parts(rest, form_values,
                       Put(file_values, named[1],
                           [filename |-> filename[1],
                            content_type |-> FileContentType(content_type_header),
                            content |-> content_bytes]))
            ELSE Parts(rest,
                       Put(form_values, named[1],
                           Decode(content_bytes, <<"utf-8">>).text),
                       file_values)

\* HTTPRequest._parse_multipart_form: the two caches it fills
_parse_multipart_form(request, content_type) ==
    LET boundary_token == BoundaryToken(Split(content_type, ";"))
    IN IF boundary_token = <<>>
       THEN [raised |-> FALSE, form |-> <<{}>>, files |-> <<{}>>]
       ELSE Parts(SplitOn(request.body, <<"--">> \o boundary_token, <<>>), {}, {})

\* HTTPRequest.get_form_data: what the computation stores in the form and
\* the files cache; raised where body.decode raises and both caches stay None
FormComputation(request) ==
    LET content_type == get_header(request, <<"content-type">>, <<>>)
    IN IF "application/x-www-form-urlencoded" \in Range(content_type)
       THEN LET c == IndexOf(content_type, "charset=")
                charset == IF c = 0 THEN <<"utf-8">>
                           ELSE SubSeq(content_type, c + 1, Len(content_type))
                decoded == Decode(request.body, charset)
            IN IF decoded.ok
               THEN [raised |-> FALSE, form |-> <<SimplifiedQs(decoded.text)>>,
                     files |-> <<{}>>]
               ELSE [raised |-> TRUE, form |-> <<>>, files |-> <<>>]
       ELSE IF "multipart/form-data" \in Range(content_type)
       THEN _parse_multipart_form(request, content_type)
       ELSE [raised |-> FALSE, form |-> <<{}>>, files |-> <<{}>>]

\* json.loads on the model's documents: value is <<>> for None, ok is FALSE
\* where Python raises JSONDecodeError
JsonLoads(decoded) ==
    LET doc == Strip(decoded, Blank)
    IN IF doc = <<"{", "}">>
       THEN [ok |-> TRUE, value |-> <<[type |-> "dict", items |-> {}]>>]
       ELSE IF doc = <<"[", "]">>
       THEN [ok |-> TRUE, value |-> <<[type |-> "list", items |-> {}]>>]
       ELSE IF doc = <<"null">> THEN [ok |-> TRUE, value |-> <<>>]
       ELSE [ok |-> FALSE, value |-> <<>>]

\* HTTPRequest.get_json: the try block; the value assigned to _json_cache
JsonComputation(request) ==
    IF "xFF" \in Range(request.body) THEN <<>>
    ELSE IF request.body = <<>> THEN <<[type |-> "dict", items |-> {}]>>
    ELSE JsonLoads(request.body).value

\* whether get_json goes on to the try block
IsJsonRequest(request) ==
    LET content_type == get_header(request, <<"content-type">>, <<>>)
    IN "application/json" \in Range(Lower(content_type))

-----------------------------------------------------------------------------
(* Request: a request object is constructed from a raw buffer, its derived *)
(* views are read, and its public attributes are assigned between reads.   *)

\* request targets: every text over a slash, a name and a question mark
Targets == SeqsUpTo({"/", "p", "?"}, MaxTarget)

QueryLine ==
    <<"GET", " ", "/", "p", "?", "a", "=", "1", "&", "a", "=", "2", "&", "b",
      "=", "+", "&", "%41">>

RawRequestLines ==
    {<<>>, <<"GET">>, QueryLine}
    \cup {<<"GET", " ">> \o t : t \in Targets}
    \cup {<<"GET", " ">> \o t \o <<" ", "HTTP/1.1">> : t \in Targets}

FormType == <<"application/x-www-form-urlencoded">>

ContentTypeValues ==
    { <<"text/plain">>, FormType,
      FormType \o <<";", " ", "charset=", "utf-8">>,
      FormType \o <<";", " ", "charset=", "latin-1">>,
      FormType \o <<";", " ", "charset=", "bogus">>,
      <<"multipart/form-data", ";", " ", "boundary=", "B">>,
      <<"multipart/form-data">>,
      <<"application/json">>, <<"Application/JSON">> }

CookieLine ==
    <<"Cookie", ":", " ", "sid", "=", "t1", ";", " ", "sid", "=", "t2", ";", "x">>

RawHeaderBlocks ==
    {<<>>, <<CRLF>> \o CookieLine}
    \cup {<<CRLF, "Content-Type", ":", " ">> \o v : v \in ContentTypeValues}

MultipartBody ==
    <<"--", "B", CRLF,
      "Content-Disposition", ":", " ", "form-data", ";", " ", "name=", "\"", "f", "\"",
      CRLF, CRLF, "v", CRLF,
      "--", "B", CRLF,
      "Content-Disposition", ":", " ", "form-data", ";", " ", "name=", "\"", "u", "\"",
      ";", " ", "filename=", "\"", "x", "\"", CRLF,
      "Content-Type", ":", " ", "text/plain", CRLF, CRLF, "xFF", CRLF,
      "--", "B", "--", CRLF>>

RawBodies ==
    { <<>>, <<"a", "=", "1", "&", "a", "=", "2">>, <<"a", "=", "xFF">>,
      <<"{", "}">>, <<"{">>, <<"null">>, MultipartBody }

\* the buffers a request is constructed from
RawRequests ==
    RawRequestLines
    \cup {line \o <<CRLF, CRLF>> : line \in RawRequestLines}
    \cup {<<"POST", " ", "/", "p", " ", "HTTP/1.1">> \o h \o <<CRLF, CRLF>> \o b :
             h \in RawHeaderBlocks, b \in RawBodies}

\* the values assigned to the attributes of a request after a view was read
AssignedBodies == {<<"{", "}">>, <<"a", "=", "3">>}
AssignedQueries == {<<"a", "=", "3">>}
AssignedContentTypes == {<<"application/json">>, FormType}

ViewReturned(view, value) ==
    [view |-> view, raised |-> FALSE, result |-> value, count |-> access.count + 1]

ViewRaised(view) ==
    [view |-> view, raised |-> TRUE, result |-> <<>>, count |-> access.count + 1]

\* the first results after view returned value
Seen(view, value) ==
    IF firstAccess[view] = <<>> THEN [firstAccess EXCEPT ![view] = <<value>>]
    ELSE firstAccess

\* the computation counts after the computation of view ran to its end
Ran(view) == [computed EXCEPT ![view] = @ + 1]

\* HTTPRequest(raw_data)
Construct ==
    /\ ~req.constructed
    /\ \E raw_data \in RawRequests : req' = NewRequest(raw_data)
    /\ UNCHANGED <<access, firstAccess, computed, mutations, besidesReq>>

\* HTTPRequest.get_query_params
GetQueryParams ==
    /\ req.constructed /\ access.count < MaxAccesses
    /\ LET miss == req._query_params_cache = <<>>
           value == IF miss THEN SimplifiedQs(req.query)
                    ELSE req._query_params_cache[1]
       IN /\ req' = [req EXCEPT !._query_params_cache = <<value>>]
          /\ access' = ViewReturned("get_query_params", value)
          /\ firstAccess' = Seen("get_query_params", value)
          /\ computed' = IF miss THEN Ran("get_query_params") ELSE computed
    /\ UNCHANGED <<mutations, besidesReq>>

\* HTTPRequest.get_cookies
GetCookies ==
    /\ req.constructed /\ access.count < MaxAccesses
    /\ LET miss == req._cookies_cache = <<>>
           value == IF miss THEN Cookies(req) ELSE req._cookies_cache[1]
       IN /\ req' = [req EXCEPT !._cookies_cache = <<value>>]
          /\ access' = ViewReturned("get_cookies", value)
          /\ firstAccess' = Seen("get_cookies", value)
          /\ computed' = IF miss THEN Ran("get_cookies") ELSE computed
    /\ UNCHANGED <<mutations, besidesReq>>

\* HTTPRequest.get_form_data
GetFormData ==
    /\ req.constructed /\ access.count < MaxAccesses
    /\ LET miss == req._form_params_cache = <<>>
           parsed == FormComputation(req)
       IN IF ~miss
          THEN /\ access' = ViewReturned("get_form_data", req._form_params_cache[1])
               /\ firstAccess' = Seen("get_form_data", req._form_params_cache[1])
               /\ UNCHANGED <<req, computed>>
          ELSE IF parsed.raised
          THEN /\ access' = ViewRaised("get_form_data")
               /\ UNCHANGED <<req, firstAccess, computed>>
          ELSE /\ req' = [req EXCEPT !._form_params_cache = parsed.form,
                                     !._files_cache = parsed.files]
               /\ access' = ViewReturned("get_form_data", parsed.form[1])
               /\ firstAccess' = Seen("get_form_data", parsed.form[1])
               /\ computed' = Ran("get_form_data")
    /\ UNCHANGED <<mutations, besidesReq>>

\* HTTPRequest.get_files
GetFiles ==
    /\ req.constructed /\ access.count < MaxAccesses
    /\ LET miss == req._files_cache = <<>>
           formMiss == req._form_params_cache = <<>>
           parsed == FormComputation(req)
       IN IF ~miss
          THEN /\ access' = ViewReturned("get_files", req._files_cache[1])
               /\ firstAccess' = Seen("get_files", req._files_cache[1])
               /\ UNCHANGED <<req, computed>>
          ELSE IF formMiss /\ parsed.raised
          THEN /\ access' = ViewRaised("get_files")
               /\ UNCHANGED <<req, firstAccess, computed>>
          ELSE LET form == IF formMiss THEN parsed.form ELSE req._form_params_cache
                   files == IF formMiss THEN parsed.files ELSE <<{}>>
               IN /\ req' = [req EXCEPT !._form_params_cache = form,
                                        !._files_cache = files]
                  /\ access' = ViewReturned("get_files", files[1])
                  /\ firstAccess' = Seen("get_files", files[1])
                  /\ computed' = Ran("get_files")
    /\ UNCHANGED <<mutations, besidesReq>>

\* HTTPRequest.get_json: its result is <<>> for None
GetJson ==
    /\ req.constructed /\ access.count < MaxAccesses
    /\ IF req._json_cache # <<>>
       THEN /\ access' = ViewReturned("get_json", req._json_cache)
            /\ firstAccess' = Seen("get_json", req._json_cache)
            /\ UNCHANGED <<req, computed>>
       ELSE IF ~IsJsonRequest(req)
       THEN /\ access' = ViewReturned("get_json", <<>>)
            /\ firstAccess' = Seen("get_json", <<>>)
            /\ UNCHANGED <<req, computed>>
       ELSE LET value == JsonComputation(req)
            IN /\ req' = [req EXCEPT !._json_cache = value]
               /\ access' = ViewReturned("get_json", value)
               /\ firstAccess' = Seen("get_json", value)
               /\ computed' = Ran("get_json")
    /\ UNCHANGED <<mutations, besidesReq>>

\* request.body = ... after a view was read
SetBody ==
    /\ req.constructed /\ access.count >= 1 /\ mutations < MaxMutations
    /\ \E b \in AssignedBodies : req' = [req EXCEPT !.body = b]
    /\ mutations' = mutations + 1
    /\ UNCHANGED <<access, firstAccess, computed, besidesReq>>

\* request.query = ... after a view was read
SetQuery ==
    /\ req.constructed /\ access.count >= 1 /\ mutations < MaxMutations
    /\ \E q \in AssignedQueries : req' = [req EXCEPT !.query = q]
    /\ mutations' = mutations + 1
    /\ UNCHANGED <<access, firstAccess, computed, besidesReq>>

\* request.headers["content-type"] = ... after a view was read
SetHeader ==
    /\ req.constructed /\ access.count >= 1 /\ mutations < MaxMutations
    /\ \E v \in AssignedContentTypes :
          req' = [req EXCEPT !.headers = Put(@, <<"content-type">>, v)]
    /\ mutations' = mutations + 1
    /\ UNCHANGED <<access, firstAccess, computed, besidesReq>>

\* the request is dropped when its connection is done
Discard ==
    /\ req.constructed /\ access.count >= 1
    /\ req' = NoRequest
    /\ access' = NoAccess
    /\ firstAccess' = [v \in Views |-> <<>>]
    /\ computed' = [v \in Views |-> 0]
    /\ mutations' = 0
    /\ UNCHANGED besidesReq

RequestInit ==
    /\ RouterConstructed /\ StaticIdle /\ ServerIdle /\ MetricIdle /\ DbIdle
    /\ SessionIdle /\ ExtIdle

RequestNext ==
    \/ Construct \/ GetQueryParams \/ GetCookies \/ GetFormData \/ GetFiles
    \/ GetJson \/ SetBody \/ SetQuery \/ SetHeader \/ Discard

RequestSpec == RequestInit /\ [][RequestNext]_vars

\* C16: every derived view of a request is computed at most once, and every
\* call of a view returns what the first call of that view returned,
\* whatever was assigned to the request in between.
C16_ViewsCachedOnce ==
    /\ \A v \in Views : computed[v] <= 1
    /\ (access.view # "" /\ ~access.raised) =>
           firstAccess[access.view] = <<access.result>>

\* C17: the path of a constructed request starts with a slash.
C17_PathStartsWithSlash ==
    req.constructed => (req.path # <<>> /\ Head(req.path) = "/")

\* C18: no derived view raises an exception, whatever the request bytes and
\* the Content-Type header are.
C18_ViewsNeverRaise == ~access.raised

-----------------------------------------------------------------------------
(* handlers.py, auth.py, models/user.py, session.py: accounts.  A form     *)
(* field is a sequence of characters, a stored username is the string of   *)
(* its characters, and a lookup returns the set of the rows it finds.  The *)
(* session methods run under the session lock, one at a time.              *)

besidesAccount ==
    <<routerVars, staticVars, serverVars, metricVars, dbVars, sLock, spc, sOp,
      sRet, respVars, renderVars, sanVars, reqVars, interactionVars,
      removalVars, visibilityVars,
      subscriptionVars,
      messageVars>>

\* UserModel._hash_password: a digest, different for different passwords
_hash_password(raw_password) == <<"sha256">> \o raw_password

\* UserModel.get_user_by_username
get_user_by_username(table, username) == {row \in table : row.username = username}

\* UserModel.verify_password
verify_password(table, username, password) ==
    {row \in get_user_by_username(table, username) :
        row.password_hash = _hash_password(password)}

\* UserModel.create_user: the row the INSERT adds
NewUser(table, username, password) ==
    [id |-> Cardinality(table) + 1, username |-> username,
     password_hash |-> _hash_password(password), display_name |-> username]

\* SessionManager.get_current_user: the username of the session_id cookie
SessionUser(sessions, cookie) ==
    IF cookie = NoCookie THEN None ELSE sessions[cookie]

\* a lookup of the current user that finds nobody
get_current_user_anonymous(sessions, table, cookie) == {}

\* AuthService.get_current_user
get_current_user(sessions, table, cookie) ==
    IF SessionUser(sessions, cookie) = None THEN {}
    ELSE get_user_by_username(table, SessionUser(sessions, cookie))

\* the values of the username field, of the password fields and of the
\* username parameter of /profile
FormUsernames ==
    {<<>>, <<"a", "l">>, <<" ", "b", "o", "b">>, <<"a", "l", "i", "c", "e">>}
RegisterPasswords == {<<>>, <<"s", " ">>}
FormPasswords == RegisterPasswords \cup {<<"t">>}
ProfileTargets == {<<>>, <<"b", "o", "b">>}

\* the cookies a client can present: none, a made-up one, or one a login set
PresentedCookies == {NoCookie, Forged} \cup {k \in Tokens : issued[k] # None}

AnswerOf(handler) == [NoFlow EXCEPT !.handler = handler]

\* UserHandlers.register up to the lookup of UserModel.create_user
RegisterRequest(t) ==
    /\ ~registering[t].active
    /\ \E username_field \in FormUsernames, password_field \in RegisterPasswords,
          confirm_field \in FormPasswords :
          LET username == Strip(username_field, Blank)
              password == Strip(password_field, Blank)
              confirm_password == Strip(confirm_field, Blank)
          IN IF \/ username = <<>> \/ password = <<>>
                \/ Len(username) < 3
                \/ password # confirm_password
                \/ get_user_by_username(users, Joined(username)) # {}
             THEN /\ flow' = [AnswerOf("register") EXCEPT
                                 !.status_code = 200, !.page = "register"]
                  /\ UNCHANGED registering
             ELSE /\ registering' = [registering EXCEPT ![t] =
                                        [active |-> TRUE, username |-> username_field,
                                         password |-> password_field]]
                  /\ UNCHANGED flow
    /\ UNCHANGED <<users, registered, _sessions, issued, destroyed, besidesAccount>>

\* the INSERT of UserModel.create_user and the rest of UserHandlers.register;
\* the UNIQUE constraint on username raises sqlite3.IntegrityError
RegisterInsert(t) ==
    /\ registering[t].active
    /\ LET username == Joined(Strip(registering[t].username, Blank))
           password == Strip(registering[t].password, Blank)
           answer == AnswerOf("register")
       IN IF get_user_by_username(users, username) # {}
          THEN /\ flow' = [answer EXCEPT !.raised = TRUE]
               /\ UNCHANGED <<users, registered>>
          ELSE /\ users' = users \cup {NewUser(users, username, password)}
               /\ registered' = registered \cup
                      {<<registering[t].username, registering[t].password>>}
               /\ flow' = [answer EXCEPT !.status_code = 302, !.location = "/login"]
    /\ registering' = [registering EXCEPT ![t] = NoRegistration]
    /\ UNCHANGED <<_sessions, issued, destroyed, besidesAccount>>

\* UserHandlers.login with AuthService.login and create_session
LoginRequest ==
    /\ \E username_field \in FormUsernames, password_field \in FormPasswords :
          LET username == Strip(username_field, Blank)
              password == Strip(password_field, Blank)
              answer == [AnswerOf("login") EXCEPT
                            !.username = Joined(username),
                            !.known = <<username_field, password_field>> \in registered]
          IN IF \/ username = <<>> \/ password = <<>>
                \/ verify_password(users, Joined(username), password) = {}
             THEN /\ flow' = [answer EXCEPT !.status_code = 200, !.page = "login"]
                  /\ UNCHANGED <<_sessions, issued>>
             ELSE \E k \in Tokens :
                     /\ issued[k] = None
                     /\ \A j \in 1..(k - 1) : issued[j] # None
                     /\ issued' = [issued EXCEPT ![k] = Joined(username)]
                     /\ _sessions' = [_sessions EXCEPT ![k] = Joined(username)]
                     /\ flow' = [answer EXCEPT !.status_code = 302,
                                               !.location = "/",
                                               !.set_cookie = k]
    /\ UNCHANGED <<users, registering, registered, destroyed, besidesAccount>>

\* BasicHandlers.profile: target is the username (or user) query parameter.
\* Without a target and without a current user the handler imports
\* create_redirect from http_types, which does not define it, and raises.
ProfileRequest ==
    /\ \E cookie \in PresentedCookies, target \in ProfileTargets :
          LET current_user == get_current_user(_sessions, users, cookie)
              named == IF target = <<>> THEN {}
                       ELSE get_user_by_username(users, Joined(target))
              target_user == IF named # {} THEN named ELSE current_user
              answer == [AnswerOf("profile") EXCEPT !.cookie = cookie,
                                                    !.target = target]
          IN flow' =
                IF target # <<>> /\ named = {}
                THEN [answer EXCEPT !.status_code = 200, !.page = "user_not_found"]
                ELSE IF target_user = {} THEN [answer EXCEPT !.raised = TRUE]
                ELSE [answer EXCEPT
                         !.status_code = 200, !.page = "profile",
                         !.page_user = (CHOOSE row \in target_user : TRUE).username]
    /\ UNCHANGED <<users, registering, registered, _sessions, issued, destroyed,
                   besidesAccount>>

\* UserHandlers.logout with destroy_session
LogoutRequest ==
    /\ \E cookie \in PresentedCookies \ {Forged} :
          /\ flow' = [AnswerOf("logout") EXCEPT !.cookie = cookie,
                                                !.status_code = 302,
                                                !.location = "/"]
          /\ IF cookie = NoCookie THEN UNCHANGED <<_sessions, destroyed>>
             ELSE /\ _sessions' = Delete(_sessions, cookie)
                  /\ destroyed' = destroyed \cup {cookie}
    /\ UNCHANGED <<users, registering, registered, issued, besidesAccount>>

AccountInit ==
    /\ RouterConstructed /\ StaticIdle /\ ServerIdle /\ MetricIdle /\ DbIdle
    /\ SessionIdle /\ ExtIdle

AccountNext ==
    \/ \E t \in Threads : RegisterRequest(t) \/ RegisterInsert(t)
    \/ LoginRequest
    \/ ProfileRequest
    \/ LogoutRequest

AccountSpec == AccountInit /\ [][AccountNext]_vars

\* C19: a login with the credentials of a registration that succeeded is
\* answered by a redirect to "/" that sets a session_id cookie of that user,
\* and a GET /profile that presents a cookie a login has set and no logout
\* has been called with is answered by the profile page of that user, not
\* by a redirect and not by an error.  (known records that the credentials
\* of a login are those of a registration that succeeded.)
C19_SessionFlow ==
    /\ (flow.handler = "login" /\ flow.known) =>
          /\ ~flow.raised /\ flow.status_code = 302 /\ flow.location = "/"
          /\ flow.set_cookie \in Tokens
          /\ issued[flow.set_cookie] = flow.username
    /\ (/\ flow.handler = "profile" /\ flow.target = <<>>
        /\ flow.cookie \in Tokens /\ flow.cookie \notin destroyed) =>
          /\ ~flow.raised /\ flow.status_code = 200 /\ flow.page = "profile"
          /\ flow.page_user = issued[flow.cookie]
          /\ flow.page_user # None

C19_Witness ==
    /\ flow.handler = "profile" /\ flow.target = <<>>
    /\ flow.cookie \in Tokens /\ flow.cookie \notin destroyed
    /\ issued[flow.cookie] = "bob"
    /\ <<<<" ", "b", "o", "b">>, <<"s", " ">>>> \in registered
    /\ \E row \in users : row.username = "alice"
    /\ flow.status_code = 200 /\ flow.page_user = "bob"

\* C21: a POST /register is answered by a page of the handler or by the
\* redirect to /login, never by an exception: a registration of a username
\* that exists, or that a concurrent registration is creating, gets the
\* failure page (status 200, the register page).
C21_RegisterNeverRaises ==
    flow.handler = "register" =>
        /\ ~flow.raised
        /\ \/ flow.status_code = 200 /\ flow.page = "register"
           \/ flow.status_code = 302 /\ flow.location = "/login"

-----------------------------------------------------------------------------
(* models/interaction.py: toggle_like and toggle_favorite on connection    *)
(* threads.  Database.fetch_one and Database.execute each run one          *)
(* statement under the database lock, so a statement is one step and the   *)
(* steps of two calls interleave.                                          *)

UserIds == {1, 2}
PostIds == {"p1"}

\* SELECT id FROM <table> WHERE user_id = ? AND post_id = ?
RowsOf(table, user_id, post_id) ==
    {row \in table : row.user_id = user_id /\ row.post_id = post_id}

\* uuid4().hex of the row a call inserts: the number of the call, so that
\* no two rows carry the same id
NewRowId(call) == call.call

\* toggle_like(user_id, post_id) or toggle_favorite(user_id, post_id) is called
ToggleCall(t) ==
    /\ toggles[t].pc = "idle"
    /\ toggleCalls < MaxToggles
    /\ \E tb \in ToggleTables, user_id \in UserIds, post_id \in PostIds :
          toggles' = [toggles EXCEPT ![t] =
                         [NoToggle EXCEPT !.pc = "select", !.table = tb,
                                          !.call = toggleCalls + 1,
                                          !.user_id = user_id, !.post_id = post_id]]
    /\ toggleCalls' = toggleCalls + 1
    /\ UNCHANGED <<tables, besidesInteraction>>

\* existing = self.database.fetch_one(...): one of the matching rows, or None
ToggleSelect(t) ==
    /\ toggles[t].pc = "select"
    /\ LET found == RowsOf(tables[toggles[t].table], toggles[t].user_id,
                           toggles[t].post_id)
       IN IF found = {}
          THEN toggles' = [toggles EXCEPT ![t].pc = "write", ![t].existing = {}]
          ELSE \E row \in found :
                  toggles' = [toggles EXCEPT ![t].pc = "write",
                                             ![t].existing = {row.id}]
    /\ UNCHANGED <<tables, toggleCalls, besidesInteraction>>

\* the DELETE ... WHERE id = ? or the INSERT, and the return
ToggleWrite(t) ==
    /\ toggles[t].pc = "write"
    /\ LET call == toggles[t]
           after == IF call.existing # {}
                    THEN {row \in tables[call.table] : row.id \notin call.existing}
                    ELSE tables[call.table] \cup
                            {[id |-> NewRowId(call), post_id |-> call.post_id,
                              user_id |-> call.user_id]}
       IN /\ tables' = [tables EXCEPT ![call.table] = after]
          /\ toggles' = [toggles EXCEPT
                            ![t].pc = "idle",
                            ![t].returned = IF call.existing # {} THEN "False"
                                            ELSE "True",
                            ![t].left = Cardinality(RowsOf(after, call.user_id,
                                                           call.post_id))]
    /\ UNCHANGED <<toggleCalls, besidesInteraction>>

InteractionInit ==
    /\ RouterConstructed /\ StaticIdle /\ ServerIdle /\ MetricIdle /\ DbIdle
    /\ SessionIdle /\ ExtIdle

InteractionNext ==
    \E t \in Threads : ToggleCall(t) \/ ToggleSelect(t) \/ ToggleWrite(t)

InteractionSpec == InteractionInit /\ [][InteractionNext]_vars

\* C20: the likes table and the favorites table hold at most one row per
\* (user_id, post_id), and a toggle that removes a row leaves its user
\* without a row for that post.
C20_OneRowPerUserAndPost ==
    /\ \A tb \in ToggleTables, user_id \in UserIds, post_id \in PostIds :
          Cardinality(RowsOf(tables[tb], user_id, post_id)) <= 1
    /\ \A t \in Threads : toggles[t].returned = "False" => toggles[t].left = 0

-----------------------------------------------------------------------------
(* handlers.py: ArticleHandlers.delete_post against add_comment,           *)
(* handle_like and handle_favorite on other connection threads.  Every     *)
(* Database call runs one statement under the database lock and commits,   *)
(* so a statement is one step and the steps of two handlers interleave.    *)
(* The schema declares FOREIGN KEY(post_id) but no connection enables      *)
(* PRAGMA foreign_keys, so SQLite does not enforce it.                     *)

PostHandlers == {"delete_post", "add_comment", "handle_like", "handle_favorite"}

\* the table a handler inserts into
TableOf(handler) ==
    IF handler = "add_comment" THEN "comments"
    ELSE IF handler = "handle_like" THEN "likes" ELSE "favorites"

\* PostModel.get_post_by_id
get_post_by_id(table, post_id) == {row \in table : row.id = post_id}

\* PostModel.is_author, for a logged-in user
is_author(post, user_id) == post.author_id = user_id

\* the rows of a table that reference a post
References(table, post_id) == {row \in table : row.post_id = post_id}

\* PostModel.create_post: uuid4 gives an id no post has had
CreatePost ==
    /\ \E post_id \in PostIds \ ({row.id : row \in posts} \cup deletedPosts),
          author_id \in UserIds :
          posts' = posts \cup {[id |-> post_id, author_id |-> author_id]}
    /\ UNCHANGED <<dependents, handling, handled, deletedPosts, besidesRemoval>>

\* a connection thread enters one of the handlers with a logged-in user
HandlerCall(t) ==
    /\ handling[t].pc = "idle"
    /\ handled < MaxHandled
    /\ \E handler \in PostHandlers, user_id \in UserIds, post_id \in PostIds :
          handling' = [handling EXCEPT ![t] =
              [NoHandling EXCEPT !.pc = "lookup", !.handler = handler,
                                 !.call = handled + 1,
                                 !.user_id = user_id, !.post_id = post_id]]
    /\ handled' = handled + 1
    /\ UNCHANGED <<posts, dependents, deletedPosts, besidesRemoval>>

\* get_post_by_id, then 404 for no post and 403 for delete_post by another user
PostLookup(t) ==
    /\ handling[t].pc = "lookup"
    /\ LET h == handling[t]
           found == get_post_by_id(posts, h.post_id)
       IN handling' = [handling EXCEPT ![t] =
              IF found = {} THEN NoHandling
              ELSE IF h.handler = "delete_post"
                   THEN IF is_author(CHOOSE row \in found : TRUE, h.user_id)
                        THEN [h EXCEPT !.pc = "delete_comments"]
                        ELSE NoHandling
              ELSE IF h.handler = "add_comment" THEN [h EXCEPT !.pc = "insert"]
              ELSE [h EXCEPT !.pc = "select"]]
    /\ UNCHANGED <<posts, dependents, handled, deletedPosts, besidesRemoval>>

\* CommentModel.delete_comments_by_post
DeleteComments(t) ==
    /\ handling[t].pc = "delete_comments"
    /\ dependents' = [dependents EXCEPT !["comments"] =
           @ \ References(@, handling[t].post_id)]
    /\ handling' = [handling EXCEPT ![t].pc = "delete_likes"]
    /\ UNCHANGED <<posts, handled, deletedPosts, besidesRemoval>>

\* InteractionModel.delete_post_records, first statement
DeleteLikes(t) ==
    /\ handling[t].pc = "delete_likes"
    /\ dependents' = [dependents EXCEPT !["likes"] =
           @ \ References(@, handling[t].post_id)]
    /\ handling' = [handling EXCEPT ![t].pc = "delete_favorites"]
    /\ UNCHANGED <<posts, handled, deletedPosts, besidesRemoval>>

\* InteractionModel.delete_post_records, second statement
DeleteFavorites(t) ==
    /\ handling[t].pc = "delete_favorites"
    /\ dependents' = [dependents EXCEPT !["favorites"] =
           @ \ References(@, handling[t].post_id)]
    /\ handling' = [handling EXCEPT ![t].pc = "delete_row"]
    /\ UNCHANGED <<posts, handled, deletedPosts, besidesRemoval>>

\* PostModel.delete_post and the redirect to /profile
DeletePostRow(t) ==
    /\ handling[t].pc = "delete_row"
    /\ posts' = posts \ get_post_by_id(posts, handling[t].post_id)
    /\ deletedPosts' = deletedPosts \cup {handling[t].post_id}
    /\ handling' = [handling EXCEPT ![t] = NoHandling]
    /\ UNCHANGED <<dependents, handled, besidesRemoval>>

\* CommentModel.add_comment: the INSERT, with a fresh uuid4 as id
InsertComment(t) ==
    /\ handling[t].pc = "insert"
    /\ dependents' = [dependents EXCEPT !["comments"] = @ \cup
           {[id |-> handling[t].call, user_id |-> handling[t].user_id,
             post_id |-> handling[t].post_id]}]
    /\ handling' = [handling EXCEPT ![t] = NoHandling]
    /\ UNCHANGED <<posts, handled, deletedPosts, besidesRemoval>>

\* toggle_like, toggle_favorite: the SELECT of the user's row for the post
SelectRecord(t) ==
    /\ handling[t].pc = "select"
    /\ LET h == handling[t]
       IN handling' = [handling EXCEPT ![t] =
              [h EXCEPT !.pc = "write",
                        !.existing = RowsOf(dependents[TableOf(h.handler)],
                                            h.user_id, h.post_id)]]
    /\ UNCHANGED <<posts, dependents, handled, deletedPosts, besidesRemoval>>

\* toggle_like, toggle_favorite: DELETE of the row found, or INSERT of a row
WriteRecord(t) ==
    /\ handling[t].pc = "write"
    /\ LET h == handling[t]
       IN dependents' = [dependents EXCEPT ![TableOf(h.handler)] =
              IF h.existing # {}
              THEN {row \in @ : row.id # (CHOOSE e \in h.existing : TRUE).id}
              ELSE @ \cup {[id |-> h.call, user_id |-> h.user_id,
                            post_id |-> h.post_id]}]
    /\ handling' = [handling EXCEPT ![t] = NoHandling]
    /\ UNCHANGED <<posts, handled, deletedPosts, besidesRemoval>>

RemovalInit ==
    /\ RouterConstructed /\ StaticIdle /\ ServerIdle /\ MetricIdle /\ DbIdle
    /\ SessionIdle /\ ExtIdle

RemovalNext ==
    \/ CreatePost
    \/ \E t \in Threads :
          \/ HandlerCall(t) \/ PostLookup(t)
          \/ DeleteComments(t) \/ DeleteLikes(t) \/ DeleteFavorites(t)
          \/ DeletePostRow(t)
          \/ InsertComment(t) \/ SelectRecord(t) \/ WriteRecord(t)

RemovalSpec == RemovalInit /\ [][RemovalNext]_vars

\* C22: once delete_post has completed for a post, no row of the comments,
\* likes or favorites table references that post, whatever add_comment,
\* handle_like or handle_favorite requests ran concurrently.
C22_NoDependentsOfDeletedPost ==
    \A post_id \in deletedPosts, tb \in DependentTables :
        References(dependents[tb], post_id) = {}

-----------------------------------------------------------------------------
(* handlers.py, api_handlers.py, models/post.py: who is shown a post.  A   *)
(* row of library is a row of posts joined with its author's username and  *)
(* with the contents of its comments.  One client sends the requests: it   *)
(* is logged in as any user or as nobody and chooses the cookies it sends. *)
(* A fragment of fixed markup is one token.                                *)

ArticleIds == {"p1"}
PermissionTypes == {"public", "vip", "password", "private"}

\* the users table: bob is a VIP member
is_vip(user) == user = "bob"

\* the content of a post, by id, and the content of a comment
ContentOf(post_id) == IF post_id = "p1" THEN <<"note", " ", "x">> ELSE <<"lead">>
CommentText == <<"red">>

\* the passwords of the forms: none, the one posts are protected with, another
PostPasswords == {<<>>, <<"s">>, <<"t">>}

\* the post_access_<id> cookie of a request: absent, or one of two values
AccessCookies == {"", "granted", "denied"}

\* PostModel._hash_password, <<>> for None
PostHash(password) == IF password = <<>> THEN <<>> ELSE <<<<"sha256">> \o password>>

\* PostModel.verify_post_password
verify_post_password(table, post_id, password) ==
    \E row \in get_post_by_id(table, post_id) :
        row.password_hash # <<>> /\ PostHash(password) = row.password_hash

\* PostModel.is_author for a user that may be None
IsAuthor(post, user) == user # None /\ post.author = user

\* PostModel.can_view_post
can_view_post(post, user, has_password_access) ==
    CASE post.permission_type = "public" -> TRUE
      [] IsAuthor(post, user) -> TRUE
      [] post.permission_type = "vip" -> user # None /\ is_vip(user)
      [] post.permission_type = "password" -> has_password_access
      [] OTHER -> FALSE

\* _HTML_TAG_PATTERN.sub(" ", value): "<", one or more characters that are
\* not ">", then ">" become one blank
RECURSIVE WithoutTags(_)
WithoutTags(value) ==
    IF value = <<>> THEN <<>>
    ELSE LET close == {i \in 3..Len(value) :
                          value[i] = ">" /\ \A j \in 2..(i - 1) : value[j] # ">"}
         IN IF Head(value) = "<" /\ close # {}
            THEN <<" ">> \o WithoutTags(SubSeq(value, (CHOOSE i \in close : TRUE) + 1,
                                               Len(value)))
            ELSE <<Head(value)>> \o WithoutTags(Tail(value))

\* _WHITESPACE_PATTERN.sub(" ", text): a run of blanks becomes one blank
RECURSIVE CollapseBlanks(_)
CollapseBlanks(text) ==
    IF text = <<>> THEN <<>>
    ELSE IF Head(text) = " " /\ Len(text) >= 2 /\ text[2] = " "
    THEN CollapseBlanks(Tail(text))
    ELSE <<Head(text)>> \o CollapseBlanks(Tail(text))

\* BaseHandler._strip_html_tags
_strip_html_tags(value) ==
    Strip(CollapseBlanks(Unescape(WithoutTags(value))), {" "})

\* the excerpt keeps this many characters (a run counts as one here; the
\* contents of the model are shorter)
ExcerptLength == 120

\* BaseHandler._excerpt
_excerpt(content) ==
    LET plain == _strip_html_tags(content)
    IN IF Len(plain) > ExcerptLength
       THEN Escape(SubSeq(plain, 1, ExcerptLength) \o <<"...">>)
       ELSE Escape(plain)

\* BaseHandler._format_content
_format_content(content, allow_html) ==
    IF content = <<>> THEN <<>>
    ELSE IF allow_html THEN _sanitize_rich_text(content)
    ELSE Escape(content)

\* ArticleHandlers._build_comment_list with _render_comment_node
RECURSIVE _build_comment_list(_)
_build_comment_list(comments) ==
    IF comments = <<>> THEN <<"[no-comments]">>
    ELSE <<"[comment-item]">> \o _format_content(Head(comments), FALSE)
         \o (IF Tail(comments) = <<>> THEN <<>> ELSE _build_comment_list(Tail(comments)))

\* ArticleHandlers._render_permission_required: the context it renders
PermissionRequiredContext(post) ==
    << <<"page_title", post.title>>,
       <<"page_description", <<"[not-visible]">>>>,
       <<"title", Escape(post.title)>>,
       <<"post_content_html", <<"[permission-message]">>>>,
       <<"comment_list_html", <<"[permission-warning]">>>> >>

\* ArticleHandlers.view_post: the context it renders for a post it shows,
\* open or locked (post_title is the placeholder title of the page)
ViewPostContext(post, is_locked_content) ==
    << <<"page_title", post.title>>,
       <<"page_description", _excerpt(post.content)>>,
       <<"title", Escape(post.title)>>,
       <<"post_content_html",
         IF is_locked_content THEN <<"[unlock-form]", post.id>>
         ELSE _format_content(post.content, TRUE)>>,
       <<"comment_list_html", _build_comment_list(post.comments)>> >>

\* ArticleHandlers.view_post; found is the result of get_post_by_id,
\* cookie the value of the post_access_<id> cookie
view_post(found, user, cookie) ==
    IF found = {} THEN _build_not_found
    ELSE LET post == CHOOSE row \in found : TRUE
             has_password_access == cookie = "granted"
             can_view == can_view_post(post, user, has_password_access)
         IN IF ~can_view /\ post.permission_type # "password"
            THEN render(<<"post.html">>, PermissionRequiredContext(post)).response
            ELSE render(<<"post.html">>, ViewPostContext(post, ~can_view)).response

\* PostAPI._post_accessible
_post_accessible(post, user, cookie) ==
    can_view_post(post, user,
                  post.permission_type = "password" /\ cookie = "granted")

\* PostAPI.get_post: the JSON body carries the content
get_post(found, user, cookie) ==
    IF found = {} THEN json_response(<<"[post-missing]">>, 404)
    ELSE LET post == CHOOSE row \in found : TRUE
         IN IF ~_post_accessible(post, user, cookie)
            THEN json_response(<<"[no-permission]">>, 403)
            ELSE json_response(post.title \o post.content, 200)

\* CommentAPI.list_comments: the JSON body carries the comments
list_comments(found, user, cookie) ==
    IF found = {} THEN json_response(<<"[post-missing]">>, 404)
    ELSE LET post == CHOOSE row \in found : TRUE
         IN IF ~can_view_post(post, user, cookie = "granted")
            THEN json_response(<<"[no-permission]">>, 403)
            ELSE json_response(<<"[comments]">> \o
                     (IF post.comments = <<>> THEN <<>> ELSE Head(post.comments)), 200)

\* the forms of /posts/new: a password is given with permission "password"
PublishForms ==
    {f \in [permission_type : PermissionTypes, password : PostPasswords \ {<<"t">>}] :
        f.password # <<>> => f.permission_type = "password"}

\* ArticleHandlers.create_post with PostModel.create_post
PublishPost ==
    /\ \E post_id \in ArticleIds \ {row.id : row \in library}, author \in Users,
          form \in PublishForms :
          library' = library \cup
              {[id |-> post_id, author |-> author,
                permission_type |-> form.permission_type,
                password_hash |-> PostHash(form.password),
                title |-> <<"title-of-", post_id>>,
                summary |-> <<"summary-of-", post_id>>,
                content |-> ContentOf(post_id), comments |-> <<>>]}
    /\ UNCHANGED <<grants, bookmarks, follows, shown, besidesVisibility>>

\* a comment is added to a post that has none
CommentOnPost ==
    /\ \E row \in library :
          /\ Len(row.comments) < MaxComments
          /\ library' = (library \ {row}) \cup
                 {[row EXCEPT !.comments = Append(@, CommentText)]}
    /\ UNCHANGED <<grants, bookmarks, follows, shown, besidesVisibility>>

\* POST /posts/<id>/unlock: a correct password sets the access cookie
UnlockRequest ==
    /\ \E post_id \in ArticleIds, password \in PostPasswords :
          LET verified == verify_post_password(library, post_id, Strip(password, {" "}))
              answer == unlock_post(post_id, password, verified)
          IN /\ shown' = [NoAnswer EXCEPT !.handler = "unlock_post",
                                          !.post_id = post_id,
                                          !.status_code = answer.status_code,
                                          !.cookie =
                              IF "SetCookie" \in DOMAIN answer.headers
                              THEN "granted" ELSE ""]
             /\ grants' = IF "SetCookie" \in DOMAIN answer.headers
                          THEN grants \cup {post_id} ELSE grants
    /\ UNCHANGED <<library, bookmarks, follows, besidesVisibility>>

\* GET /posts/<id>
ViewPostRequest ==
    /\ \E post_id \in ArticleIds, user \in Users \cup {None}, cookie \in AccessCookies :
          \E found \in {get_post_by_id(library, post_id)} :
          \E answer \in {view_post(found, user, cookie)} :
             shown' = [handler |-> "view_post", post_id |-> post_id, user |-> user,
                       cookie |-> cookie, status_code |-> answer.status_code,
                       disclosed |-> \E post \in found :
                           can_view_post(post, user, cookie = "granted"),
                       body |-> answer.body]
    /\ UNCHANGED <<library, grants, bookmarks, follows, besidesVisibility>>

\* GET /api/posts/<id>
GetPostRequest ==
    /\ \E post_id \in ArticleIds, user \in Users \cup {None}, cookie \in AccessCookies :
          \E answer \in {get_post(get_post_by_id(library, post_id), user, cookie)} :
             shown' = [handler |-> "get_post", post_id |-> post_id, user |-> user,
                       cookie |-> cookie, status_code |-> answer.status_code,
                       disclosed |-> answer.status_code = 200,
                       body |-> answer.body]
    /\ UNCHANGED <<library, grants, bookmarks, follows, besidesVisibility>>

\* GET /api/posts/<id>/comments
ListCommentsRequest ==
    /\ \E post_id \in ArticleIds, user \in Users \cup {None}, cookie \in AccessCookies :
          \E answer \in {list_comments(get_post_by_id(library, post_id), user, cookie)} :
             shown' = [handler |-> "list_comments", post_id |-> post_id, user |-> user,
                       cookie |-> cookie, status_code |-> answer.status_code,
                       disclosed |-> answer.status_code = 200,
                       body |-> answer.body]
    /\ UNCHANGED <<library, grants, bookmarks, follows, besidesVisibility>>

AccessInit ==
    /\ RouterConstructed /\ StaticIdle /\ ServerIdle /\ MetricIdle /\ DbIdle
    /\ SessionIdle /\ ExtIdle

AccessNext ==
    \/ PublishPost \/ CommentOnPost \/ UnlockRequest
    \/ ViewPostRequest \/ GetPostRequest \/ ListCommentsRequest

AccessSpec == AccessInit /\ [][AccessNext]_vars

\* the post the last answer is about
ShownPosts == get_post_by_id(library, shown.post_id)

\* C23: view_post, get_post and list_comments show the content or the
\* comments of a password-protected post to a requester who is not its
\* author only after unlock_post has verified the password of that post and
\* set the access cookie, whatever cookies the requester sends.
C23_PasswordPostNeedsGrant ==
    \A post \in ShownPosts :
        (/\ shown.handler \in {"view_post", "get_post", "list_comments"}
         /\ shown.disclosed
         /\ post.permission_type = "password"
         /\ ~IsAuthor(post, shown.user)) => shown.post_id \in grants

\* other contents and comments a post could have
OtherContents == {<<"lead">>, <<"note", " ", "x">>}
OtherComments == {<<>>, <<CommentText>>}

\* C24: the page view_post renders for a password-protected post in the
\* locked state (the requester is not the author and sends no access
\* cookie) is the same for every content and every comments the post could
\* have.
C24_LockedPageHidesContent ==
    \A post \in ShownPosts :
        (/\ shown.handler = "view_post"
         /\ post.permission_type = "password"
         /\ ~can_view_post(post, shown.user, shown.cookie = "granted")) =>
            \A content \in OtherContents, comments \in OtherComments :
                view_post({[post EXCEPT !.content = content,
                                        !.comments = comments]},
                          shown.user, shown.cookie).body = shown.body

-----------------------------------------------------------------------------
(* handlers.py, api_handlers.py: the pages and the API that list posts.    *)
(* Privacy settings are the defaults (nothing hidden), so a profile page   *)
(* lists the posts and the favorites of its user.                          *)

\* the ids of the posts, newest first
ArticleOrder == <<"p1">>

\* PostModel.list_posts with an author filter (None for no filter)
list_posts(table, author) ==
    LET rows == [i \in DOMAIN ArticleOrder |-> get_post_by_id(table, ArticleOrder[i])]
        kept == SelectSeq(rows, LAMBDA found : \E row \in found :
                              author = None \/ row.author = author)
    IN [i \in DOMAIN kept |-> CHOOSE row \in kept[i] : TRUE]

\* BasicHandlers._prepare_post_summary
_prepare_post_summary(post) ==
    LET from_summary == _strip_html_tags(post.summary)
        plain_text == IF from_summary # <<>> THEN from_summary
                      ELSE _strip_html_tags(post.content)
    IN IF plain_text = <<>> THEN <<"[no-summary]">> ELSE plain_text

\* BasicHandlers._build_post_cards
RECURSIVE _build_post_cards(_)
_build_post_cards(cards) ==
    IF cards = <<>> THEN <<"[no-posts]">>
    ELSE <<"[post-card]">> \o Escape(Head(cards).title)
         \o Escape(_prepare_post_summary(Head(cards)))
         \o (IF Tail(cards) = <<>> THEN <<>> ELSE _build_post_cards(Tail(cards)))

\* BasicHandlers._filter_accessible_posts, without access cookies
_filter_accessible_posts(listed, user) ==
    SelectSeq(listed, LAMBDA post : _post_accessible(post, user, ""))

\* BasicHandlers._load_subscription_posts: the accessible posts of the
\* authors the user subscribes to
_load_subscription_posts(table, subscriptions, user) ==
    SelectSeq(list_posts(table, None),
              LAMBDA post : /\ <<user, post.author>> \in subscriptions
                            /\ _post_accessible(post, user, ""))

\* BasicHandlers.homepage
homepage(table, subscriptions, user) ==
    LET listed == list_posts(table, None)
        visible == IF user # None THEN _filter_accessible_posts(listed, user)
                   ELSE SelectSeq(listed, LAMBDA post : post.permission_type = "public")
        subscription_html ==
            IF user # None
            THEN _build_post_cards(_load_subscription_posts(table, subscriptions, user))
            ELSE <<"[login-for-subscriptions]">>
    IN render(<<"index.html">>,
              << <<"posts_html", _build_post_cards(visible)>>,
                 <<"subscription_posts_html", subscription_html>> >>).response

\* BasicHandlers.profile for an existing target user: every post of the
\* target and every post the target has favorited
profile(table, favorites, current_user, target_user) ==
    LET authored_posts == list_posts(table, target_user)
        favorite_posts ==
            SelectSeq(list_posts(table, None),
                      LAMBDA post : <<target_user, post.id>> \in favorites)
    IN render(<<"profile.html">>,
              << <<"authored_posts_html", _build_post_cards(authored_posts)>>,
                 <<"favorite_posts_html", _build_post_cards(favorite_posts)>> >>).response

\* SubscriptionHandlers._render_page
subscriptions_page(table, subscriptions, user) ==
    render(<<"subscriptions.html">>,
           << <<"subscription_posts_html",
                _build_post_cards(_load_subscription_posts(table, subscriptions, user))>> >>).response

\* PostAPI.list_posts: the JSON body carries the summaries it serializes
RECURSIVE Summaries(_)
Summaries(listed) ==
    IF listed = <<>> THEN <<>>
    ELSE Head(listed).title \o Head(listed).summary \o Summaries(Tail(listed))

api_list_posts(table, user, cookie) ==
    json_response(<<"[posts]">> \o
        Summaries(SelectSeq(list_posts(table, None),
                            LAMBDA post : _post_accessible(post, user, cookie))), 200)

\* the answer of a listing handler
Listed(handler, user, answer) ==
    [NoAnswer EXCEPT !.handler = handler, !.user = user,
                     !.status_code = answer.status_code, !.body = answer.body]

\* POST /posts/<id>/favorite by a logged-in user: the row is toggled
FavoriteRequest ==
    /\ \E user \in Users, post_id \in ArticleIds :
          /\ get_post_by_id(library, post_id) # {}
          /\ bookmarks' = IF <<user, post_id>> \in bookmarks
                          THEN bookmarks \ {<<user, post_id>>}
                          ELSE bookmarks \cup {<<user, post_id>>}
    /\ UNCHANGED <<library, grants, follows, shown, besidesVisibility>>

\* POST /subscriptions/author by a logged-in user
SubscribeRequest ==
    /\ \E user \in Users : \E author \in Users \ {user} :
          /\ <<user, author>> \notin follows
          /\ follows' = follows \cup {<<user, author>>}
    /\ UNCHANGED <<library, grants, bookmarks, shown, besidesVisibility>>

\* GET /
HomePageRequest ==
    /\ \E user \in Users \cup {None} :
          \E answer \in {homepage(library, follows, user)} :
             shown' = Listed("homepage", user, answer)
    /\ UNCHANGED <<library, grants, bookmarks, follows, besidesVisibility>>

\* GET /profile?username=<target>, and GET /profile of a logged-in user
ProfilePageRequest ==
    /\ \E user \in Users \cup {None}, target_user \in Users :
          \E answer \in {profile(library, bookmarks, user, target_user)} :
             shown' = Listed("profile", user, answer)
    /\ UNCHANGED <<library, grants, bookmarks, follows, besidesVisibility>>

\* GET /subscriptions of a logged-in user
SubscriptionsPageRequest ==
    /\ \E user \in Users :
          \E answer \in {subscriptions_page(library, follows, user)} :
             shown' = Listed("subscriptions", user, answer)
    /\ UNCHANGED <<library, grants, bookmarks, follows, besidesVisibility>>

\* GET /api/posts
ListPostsRequest ==
    /\ \E user \in Users \cup {None}, cookie \in AccessCookies :
          \E answer \in {api_list_posts(library, user, cookie)} :
             shown' = Listed("list_posts", user, answer)
    /\ UNCHANGED <<library, grants, bookmarks, follows, besidesVisibility>>

ListingInit ==
    /\ RouterConstructed /\ StaticIdle /\ ServerIdle /\ MetricIdle /\ DbIdle
    /\ SessionIdle /\ ExtIdle

ListingNext ==
    \/ PublishPost \/ FavoriteRequest \/ SubscribeRequest
    \/ HomePageRequest \/ ProfilePageRequest \/ SubscriptionsPageRequest
    \/ ListPostsRequest \/ GetPostRequest

ListingSpec == ListingInit /\ [][ListingNext]_vars

\* C25: the title and the summary of a private post are in no answer of
\* the homepage, a profile page, the subscriptions page, /api/posts or
\* /api/posts/<id> to a requester who is not the author of the post.
C25_PrivatePostNotListed ==
    \A post \in library :
        (/\ post.permission_type = "private"
         /\ shown.handler \in {"homepage", "profile", "subscriptions", "list_posts",
                               "get_post"}
         /\ shown.user # post.author) =>
            /\ ~Contains(shown.body, post.title)
            /\ ~Contains(shown.body, post.summary)

-----------------------------------------------------------------------------
(* models/subscription.py with SubscriptionAPI and SubscriptionHandlers.   *)
(* A request carries the id of its logged-in user, or 0 without a session. *)

SubscriptionIds == 1..MaxSubscriptions
SubscriptionTypes == {"category", "author"}
SubscriptionValues == {"news", "alice"}

\* SubscriptionModel.add_subscription from create_subscription,
\* subscribe_category or subscribe_author
AddSubscription ==
    /\ subscriptionsMade < MaxSubscriptions
    /\ \E user_id \in UserIds, subscription_type \in SubscriptionTypes,
          subscription_value \in SubscriptionValues :
          /\ ~\E row \in subscription_rows :
                 /\ row.user_id = user_id
                 /\ row.subscription_type = subscription_type
                 /\ row.subscription_value = subscription_value
          /\ subscription_rows' = subscription_rows \cup
                 {[id |-> subscriptionsMade + 1, user_id |-> user_id,
                   subscription_type |-> subscription_type,
                   subscription_value |-> subscription_value]}
    /\ subscriptionsMade' = subscriptionsMade + 1
    /\ UNCHANGED <<cancelled, besidesSubscription>>

\* SubscriptionModel.remove_subscription: DELETE ... WHERE id = ?
remove_subscription(table, subscription_id) ==
    {row \in table : row.id # subscription_id}

\* SubscriptionModel.remove_subscription_by_value
remove_subscription_by_value(table, user_id, subscription_type, subscription_value) ==
    {row \in table : ~(/\ row.user_id = user_id
                       /\ row.subscription_type = subscription_type
                       /\ row.subscription_value = subscription_value)}

\* SubscriptionAPI.remove_subscription: DELETE /api/subscriptions/<id>
RemoveSubscriptionRequest ==
    /\ \E user_id \in UserIds \cup {0}, subscription_id \in SubscriptionIds :
          \E after \in {IF user_id = 0 THEN subscription_rows
                        ELSE remove_subscription(subscription_rows, subscription_id)} :
             /\ subscription_rows' = after
             /\ cancelled' = [handler |-> "remove_subscription", user_id |-> user_id,
                              status_code |-> IF user_id = 0 THEN 401 ELSE 200,
                              removed |-> subscription_rows \ after]
    /\ UNCHANGED <<subscriptionsMade, besidesSubscription>>

\* SubscriptionHandlers.cancel_subscription: POST /subscriptions/cancel
CancelSubscriptionRequest ==
    /\ \E user_id \in UserIds \cup {0}, subscription_type \in SubscriptionTypes,
          subscription_value \in SubscriptionValues :
          \E after \in {IF user_id = 0 THEN subscription_rows
                        ELSE remove_subscription_by_value(subscription_rows, user_id,
                                 subscription_type, subscription_value)} :
             /\ subscription_rows' = after
             /\ cancelled' = [handler |-> "cancel_subscription", user_id |-> user_id,
                              status_code |-> IF user_id = 0 THEN 302 ELSE 200,
                              removed |-> subscription_rows \ after]
    /\ UNCHANGED <<subscriptionsMade, besidesSubscription>>

SubscriptionInit ==
    /\ RouterConstructed /\ StaticIdle /\ ServerIdle /\ MetricIdle /\ DbIdle
    /\ SessionIdle /\ ExtIdle

SubscriptionNext ==
    AddSubscription \/ RemoveSubscriptionRequest \/ CancelSubscriptionRequest

SubscriptionSpec == SubscriptionInit /\ [][SubscriptionNext]_vars

\* C26: a request removes only subscriptions of the user who sent it.
C26_OnlyOwnerRemoves ==
    \A row \in cancelled.removed : row.user_id = cancelled.user_id

-----------------------------------------------------------------------------
(* api_handlers.py: PostAPI.update_permissions with PostModel.set_permissions *)

\* _map_post_detail: security.password_protected
password_protected(post) ==
    post.permission_type = "password" /\ post.password_hash # <<>>

\* PostModel.set_permissions: the row after the UPDATE; password is <<>>
\* for None and for the empty string
set_permissions(post, permission_type, password) ==
    [post EXCEPT !.permission_type = permission_type,
                 !.password_hash = PostHash(password)]

\* PostAPI.update_permissions for the JSON fields permission_type and
\* password (<<>> when absent): the status and the row it leaves
update_permissions(found, user, requested_type, requested_password) ==
    IF user = None THEN [status_code |-> 401, rows |-> found]
    ELSE IF found = {} THEN [status_code |-> 404, rows |-> found]
    ELSE LET post == CHOOSE row \in found : TRUE
             permission_type == IF requested_type # "" THEN requested_type
                                ELSE post.permission_type
             stripped == Strip(requested_password, {" "})
         IN IF ~IsAuthor(post, user) THEN [status_code |-> 403, rows |-> found]
            ELSE IF /\ permission_type = "password" /\ stripped = <<>>
                    /\ ~password_protected(post)
            THEN [status_code |-> 422, rows |-> found]
            ELSE [status_code |-> 200,
                  rows |-> {set_permissions(post, permission_type,
                               IF permission_type # "password" THEN <<>>
                               ELSE stripped)}]

\* POST /api/posts/<post_id>/permissions
UpdatePermissionsRequest ==
    /\ \E post_id \in ArticleIds, user \in Users \cup {None},
          requested_type \in PermissionTypes \cup {""},
          requested_password \in {<<>>, <<"t">>, <<" ">>} :
          \E found \in {get_post_by_id(library, post_id)} :
          \E answer \in {update_permissions(found, user, requested_type,
                                            requested_password)} :
             /\ library' = (library \ found) \cup answer.rows
             /\ shown' = [handler |-> "update_permissions", post_id |-> post_id,
                          user |-> user, cookie |-> requested_type,
                          status_code |-> answer.status_code, disclosed |-> FALSE,
                          body |-> Strip(requested_password, {" "}),
                          before |-> found]
    /\ UNCHANGED <<grants, bookmarks, follows, besidesVisibility>>

PermissionInit ==
    /\ RouterConstructed /\ StaticIdle /\ ServerIdle /\ MetricIdle /\ DbIdle
    /\ SessionIdle /\ ExtIdle

PermissionNext == PublishPost \/ UnlockRequest \/ UpdatePermissionsRequest

PermissionSpec == PermissionInit /\ [][PermissionNext]_vars

\* C27: after update_permissions has succeeded on a password-protected
\* post with permission_type "password" or none and without a new password,
\* the post is still password-protected with the password hash it had
\* before, so the password that unlocked it still does.
C27_PasswordKept ==
    (/\ shown.handler = "update_permissions" /\ shown.status_code = 200
     /\ shown.cookie \in {"", "password"} /\ shown.body = <<>>) =>
        \A old \in shown.before :
            password_protected(old) =>
                \E post \in ShownPosts :
                    /\ password_protected(post)
                    /\ post.password_hash = old.password_hash

-----------------------------------------------------------------------------
(* models/message.py: MessageModel, called by api_handlers.py: MessageAPI  *)
(* on the threads the server starts per connection; Database runs one      *)
(* statement at a time, so a handler is a sequence of statements           *)

Correspondents == {1, 2, 3}

MessageHandlers == {"get_message", "delete_message", "restore_message",
                    "permanently_delete_message"}

\* MessageAPI.send_message past its checks: MessageModel.send_message
\* inserts one row with status 'normal'
SendMessage ==
    /\ messagesSent < MaxMessages
    /\ \E sender_id \in Correspondents, receiver_id \in Correspondents :
          mailbox' = mailbox \cup {[id |-> messagesSent + 1, sender_id |-> sender_id,
                                    receiver_id |-> receiver_id, status |-> "normal"]}
    /\ messagesSent' = messagesSent + 1
    /\ UNCHANGED <<inflight, moved, besidesMessage>>

\* MessageModel.get_message_by_id: the row user_id sent or received
get_message_by_id(table, message_id, user_id) ==
    {row \in table : /\ row.id = message_id
                     /\ (row.sender_id = user_id \/ row.receiver_id = user_id)}

\* a thread enters a MessageAPI handler; user_id 0 is a request without a
\* session, answered 401
MessageCall(t) ==
    /\ inflight[t].pc = "idle"
    /\ \E handler \in MessageHandlers, user_id \in Correspondents \cup {0},
          message_id \in 1..MaxMessages :
          inflight' = [inflight EXCEPT ![t] =
              IF user_id = 0 THEN [NoMessageCall EXCEPT !.status_code = 401]
              ELSE [pc |-> "lookup", handler |-> handler, user_id |-> user_id,
                    message_id |-> message_id, seen |-> {}, status_code |-> 0]]
    /\ UNCHANGED <<mailbox, messagesSent, moved, besidesMessage>>

\* the handler's get_message_by_id and the checks made on its result
MessageLookup(t) ==
    LET call == inflight[t]
        seen == get_message_by_id(mailbox, call.message_id, call.user_id)
        refused ==
            \/ seen = {}
            \/ /\ call.handler = "restore_message"
               /\ \E message \in seen : message.status # "deleted"
        answered ==
            /\ call.handler = "get_message"
            /\ \E message \in seen : message.receiver_id # call.user_id
    IN /\ call.pc = "lookup"
       /\ inflight' = [inflight EXCEPT ![t] =
              IF refused THEN [NoMessageCall EXCEPT !.status_code = 404]
              ELSE IF answered THEN [NoMessageCall EXCEPT !.status_code = 200]
              ELSE [call EXCEPT !.seen = seen, !.pc = "write"]]
       /\ UNCHANGED <<mailbox, messagesSent, moved, besidesMessage>>

\* MessageModel.mark_as_read: UPDATE ... SET status = 'read'
\* WHERE id = ? AND status = 'normal'
mark_as_read(table, message_id) ==
    {IF row.id = message_id /\ row.status = "normal"
     THEN [row EXCEPT !.status = "read"] ELSE row : row \in table}

\* the UPDATE of delete_message and restore_message: SET status = ? WHERE id = ?
set_status(table, message_id, status) ==
    {IF row.id = message_id THEN [row EXCEPT !.status = status] ELSE row :
        row \in table}

\* the DELETE of permanently_delete_message: WHERE id = ?
remove_message(table, message_id) == {row \in table : row.id # message_id}

\* the handler's writing statement, then its 200 answer
MessageWrite(t) ==
    LET call == inflight[t]
        after == CASE call.handler = "get_message" ->
                          mark_as_read(mailbox, call.message_id)
                   [] call.handler = "delete_message" ->
                          set_status(mailbox, call.message_id, "deleted")
                   [] call.handler = "restore_message" ->
                          set_status(mailbox, call.message_id, "normal")
                   [] OTHER -> remove_message(mailbox, call.message_id)
        status == CASE call.handler = "get_message" -> "read"
                    [] call.handler = "delete_message" -> "deleted"
                    [] call.handler = "restore_message" -> "normal"
                    [] OTHER -> "removed"
    IN /\ call.pc = "write"
       /\ mailbox' = after
       /\ moved' = IF after = mailbox THEN moved
                   ELSE [handler |-> call.handler, user_id |-> call.user_id,
                         before |-> mailbox \ after, status |-> status]
       /\ inflight' = [inflight EXCEPT ![t] =
              [NoMessageCall EXCEPT !.status_code = 200]]
       /\ UNCHANGED <<messagesSent, besidesMessage>>

MessageInit ==
    /\ RouterConstructed /\ StaticIdle /\ ServerIdle /\ MetricIdle /\ DbIdle
    /\ SessionIdle /\ ExtIdle

MessageNext ==
    \/ SendMessage
    \/ \E t \in Threads : MessageCall(t)
    \/ \E t \in Threads : MessageLookup(t)
    \/ \E t \in Threads : MessageWrite(t)

MessageSpec == MessageInit /\ [][MessageNext]_vars

\* the changes of a message the state machine allows
PermittedMove(handler, user_id, message, status) ==
    /\ user_id \in {message.sender_id, message.receiver_id}
    /\ \/ /\ handler = "get_message" /\ user_id = message.receiver_id
          /\ message.status = "normal" /\ status = "read"
       \/ /\ handler = "delete_message"
          /\ message.status \in {"normal", "read"} /\ status = "deleted"
       \/ /\ handler = "restore_message"
          /\ message.status = "deleted" /\ status = "normal"
       \/ /\ handler = "permanently_delete_message" /\ status = "removed"

\* C28: a message's status is always normal, read or deleted, and every
\* change of a message is normal to read by the receiver's get_message,
\* normal or read to deleted by delete_message, deleted to normal by
\* restore_message, or removal by permanently_delete_message, each made
\* for the sender or the receiver.
C28_MessageStatusMachine ==
    /\ \A message \in mailbox : message.status \in {"normal", "read", "deleted"}
    /\ \A message \in moved.before :
           PermittedMove(moved.handler, moved.user_id, message, moved.status)

-----------------------------------------------------------------------------
(* handlers.py and api_handlers.py: the handlers that begin with           *)
(* get_current_user and answer a request without a user before doing       *)
(* anything else                                                           *)

\* page handlers: if not user: return create_redirect("/login")
GuardedPages ==
    {"BasicHandlers.update_privacy_settings", "BasicHandlers.update_profile",
     "ArticleHandlers.show_create_post", "ArticleHandlers.create_post",
     "ArticleHandlers.add_comment", "ArticleHandlers.handle_favorite",
     "ArticleHandlers.handle_like", "ArticleHandlers.delete_post",
     "SubscriptionHandlers.show_subscriptions",
     "SubscriptionHandlers.subscribe_category",
     "SubscriptionHandlers.subscribe_author",
     "SubscriptionHandlers.cancel_subscription",
     "MessageHandlers.mailbox", "MessageHandlers.view_conversation",
     "MessageHandlers.send_message"}

\* API handlers: if not user: return error_response(..., status=401)
GuardedApis ==
    {"PostAPI.create_post", "PostAPI.update_permissions", "PostAPI.toggle_like",
     "PostAPI.toggle_favorite", "CommentAPI.create_comment",
     "SubscriptionAPI.list_subscriptions", "SubscriptionAPI.create_subscription",
     "SubscriptionAPI.remove_subscription", "MessageAPI.list_messages",
     "MessageAPI.get_conversation", "MessageAPI.send_message",
     "MessageAPI.get_inbox", "MessageAPI.get_sent", "MessageAPI.get_trash",
     "MessageAPI.get_message", "MessageAPI.delete_message",
     "MessageAPI.restore_message", "MessageAPI.permanently_delete_message"}

\* one of these handlers on a request whose cookie names no session: the
\* first statements of the handler, which return its answer
GuardedRequest ==
    /\ \E handler \in GuardedPages \cup GuardedApis, cookie \in PresentedCookies :
          /\ get_current_user(_sessions, users, cookie) = {}
          /\ flow' = IF handler \in GuardedPages
                     THEN [AnswerOf(handler) EXCEPT !.cookie = cookie,
                                                    !.status_code = 302,
                                                    !.location = "/login"]
                     ELSE [AnswerOf(handler) EXCEPT !.cookie = cookie,
                                                    !.status_code = 401]
    /\ UNCHANGED <<users, registering, registered, _sessions, issued, destroyed,
                   besidesAccount>>

GuardInit ==
    /\ RouterConstructed /\ StaticIdle /\ ServerIdle /\ MetricIdle /\ DbIdle
    /\ SessionIdle /\ ExtIdle

\* one registering thread gives the users whose logins make cookies valid
GuardNext ==
    \/ RegisterRequest("t1") \/ RegisterInsert("t1")
    \/ LoginRequest
    \/ LogoutRequest
    \/ ProfileRequest
    \/ GuardedRequest

GuardSpec == GuardInit /\ [][GuardNext]_vars

\* C29: a request without a valid session is answered without an exception:
\* by a 302 redirect to /login by the page handlers that need a user,
\* GET /profile without a username parameter among them, and by a 401 by
\* the API handlers that need a user.
C29_LoginRequiredAnswers ==
    get_current_user(_sessions, users, flow.cookie) = {} =>
        /\ (\/ flow.handler \in GuardedPages
            \/ flow.handler = "profile" /\ flow.target = <<>>) =>
               /\ ~flow.raised
               /\ flow.status_code = 302 /\ flow.location = "/login"
        /\ flow.handler \in GuardedApis =>
               ~flow.raised /\ flow.status_code = 401

-----------------------------------------------------------------------------
(* server.py: the router after _configure_routes, asked for the paths the  *)
(* registered templates describe                                           *)

\* values of a <parameter> segment: one that is no literal of any template
\* and two that are literals of earlier templates
ParameterValues == {"v", "inbox", "new"}

\* the path a template describes with every <parameter> replaced by value
RECURSIVE InstanceFrom(_, _, _)
InstanceFrom(segments, value, i) ==
    IF i > Len(segments) THEN <<>>
    ELSE <<"/">> \o (IF IsPlaceholder(segments[i]) THEN <<value>> ELSE segments[i])
                 \o InstanceFrom(segments, value, i + 1)

Instance(entry, value) ==
    IF entry.segments = <<>> THEN <<"/">>
    ELSE InstanceFrom(entry.segments, value, 1)

\* _dispatch asks the router for the handler of a request
ResolveInstance ==
    \E i \in DOMAIN routes, value \in ParameterValues,
       method \in {<<"GET">>, <<"POST">>, <<"DELETE">>} :
        resolve(Instance(routes[i], value), method)

RoutingInit ==
    /\ RouterConstructed /\ StaticIdle /\ ServerIdle /\ MetricIdle /\ DbIdle
    /\ SessionIdle /\ ExtIdle

RoutingNext == ResolveInstance \/ ResolveReturn

RoutingSpec == RoutingInit /\ [][RoutingNext]_vars

\* C30: every route _configure_routes registers is reachable: some path of
\* its template, asked with its method, resolves to its handler.
C30_EveryRouteReachable ==
    \A i \in DOMAIN routes :
        \E value \in ParameterValues :
            Resolve(routes, Instance(routes[i], value), routes[i].method).handler
                = routes[i].handler

====
